---- MODULE Spec2Model ----
(***************************************************************************)
(* The incremental policy service (src/src/bin/vhdl_policyd.rs): a reader  *)
(* thread forwards stdin lines over a channel to a worker that owns five   *)
(* differential-dataflow input sessions, the derived violation-weight map  *)
(* and stdout. The batch rules of src/src/policy/core.rs and the           *)
(* post-filter of src/src/policy/engine.rs are modelled as operators.      *)
(*                                                                         *)
(* Strings whose characters the code inspects (names, files) are sequences *)
(* of one-character strings; rule ids and severities are literals.         *)
(***************************************************************************)
EXTENDS Integers, Sequences, FiniteSets, TLC

\* ---------------------------------------------------------------- bounds
\* Lines the reader thread reads from stdin before the stream closes.
MaxLines == 2
\* Lines that may sit in the channel at once (the channel itself is unbounded).
MaxQueue == 2
\* The same two bounds for the runs over the short list of lines (ProtoSpec).
ProtoMaxLines == 4
ProtoMaxQueue == 3
\* Rows carried by the tables of an init command.
MaxRows == 2
\* Rows carried by the added, and by the removed, tables of a delta command.
MaxDeltaRows == 1
\* Lines read and channel depth when deltas are undone by their inverse.
InverseMaxLines == 3
InverseMaxQueue == 1
\* Entities, signal dependencies and processes in an Input of the batch engine.
MaxEntities == 2
MaxDeps == 3
MaxProcs == 2
\* Signal dependencies in an Input that may hold a cycle of three signals.
MaxCycleDeps == 4

\* Signal declarations of an Input with an instance.
MaxSignals == 2

\* Verification tags of an Input.
MaxTags == 2

\* --------------------------------------------------------------- strings
s_core == <<"c", "o", "r", "e">>
s_core_tb == <<"c", "o", "r", "e", "_", "t", "b">>
s_Core == <<"C", "o", "r", "e">>
s_rtl == <<"r", "t", "l">>
s_clk == <<"c", "l", "k">>
s_a_vhd == <<"a", ".", "v", "h", "d">>
s_b_vhd == <<"b", ".", "v", "h", "d">>

\* The ASCII letters.
UpperChars ==
    <<"A", "B", "C", "D", "E", "F", "G", "H", "I", "J", "K", "L", "M", "N",
      "O", "P", "Q", "R", "S", "T", "U", "V", "W", "X", "Y", "Z">>

LowerChars ==
    <<"a", "b", "c", "d", "e", "f", "g", "h", "i", "j", "k", "l", "m", "n",
      "o", "p", "q", "r", "s", "t", "u", "v", "w", "x", "y", "z">>

\* The characters in use, in ASCII order (byte order is what String::cmp uses).
Ascii == <<" ", ".", "1", "2">> \o UpperChars \o <<"_">> \o LowerChars \o <<"{", "|">>

Ord(c) == CHOOSE i \in 1..Len(Ascii) : Ascii[i] = c

\* str::cmp: lexicographic on bytes, a proper prefix is smaller.
RECURSIVE StrLess(_, _)
StrLess(a, b) ==
    IF b = <<>> THEN FALSE
    ELSE IF a = <<>> THEN TRUE
    ELSE IF Ord(Head(a)) < Ord(Head(b)) THEN TRUE
    ELSE IF Ord(Head(a)) > Ord(Head(b)) THEN FALSE
    ELSE StrLess(Tail(a), Tail(b))

\* u8::to_ascii_lowercase
char_to_ascii_lowercase(c) ==
    IF \E i \in 1..26 : UpperChars[i] = c
    THEN LowerChars[CHOOSE i \in 1..26 : UpperChars[i] = c]
    ELSE c

\* u8::to_ascii_uppercase
char_to_ascii_uppercase(c) ==
    IF \E i \in 1..26 : LowerChars[i] = c
    THEN UpperChars[CHOOSE i \in 1..26 : LowerChars[i] = c]
    ELSE c

\* str::to_ascii_uppercase
to_ascii_uppercase(s) == [i \in 1..Len(s) |-> char_to_ascii_uppercase(s[i])]

\* str::starts_with
starts_with(s, pat) ==
    /\ Len(pat) <= Len(s)
    /\ SubSeq(s, 1, Len(pat)) = pat

\* str::to_ascii_lowercase
to_ascii_lowercase(s) == [i \in 1..Len(s) |-> char_to_ascii_lowercase(s[i])]

\* str::contains
contains(s, pat) ==
    \E i \in 0..(Len(s) - Len(pat)) : SubSeq(s, i + 1, i + Len(pat)) = pat

\* str::ends_with
ends_with(s, pat) ==
    /\ Len(pat) <= Len(s)
    /\ SubSeq(s, Len(s) - Len(pat) + 1, Len(s)) = pat

\* str::trim().is_empty(): only whitespace.
trim_is_empty(s) == \A i \in 1..Len(s) : s[i] = " "

\* vhdl_policyd.rs is_testbench_name
is_testbench_name(name) ==
    LET lower == to_ascii_lowercase(name) IN
    \/ contains(lower, <<"_", "t", "b">>)
    \/ contains(lower, <<"t", "b", "_">>)
    \/ ends_with(lower, <<"t", "b">>)
    \/ contains(lower, <<"t", "e", "s", "t">>)
    \/ contains(lower, <<"b", "e", "n", "c", "h">>)

\* policy/helpers.rs is_testbench_name (two more tokens than the service's).
helpers_is_testbench_name(name) ==
    LET lower == to_ascii_lowercase(name) IN
    \/ contains(lower, <<"_", "t", "b">>)
    \/ contains(lower, <<"t", "b", "_">>)
    \/ ends_with(lower, <<"t", "b">>)
    \/ contains(lower, <<"t", "e", "s", "t">>)
    \/ contains(lower, <<"b", "e", "n", "c", "h">>)
    \/ contains(lower, <<"b", "f", "m">>)
    \/ contains(lower, <<"v", "e", "r", "i", "f", "i", "c", "a", "t", "i", "o", "n">>)

\* str::eq_ignore_ascii_case
eq_ignore_ascii_case(a, b) == to_ascii_lowercase(a) = to_ascii_lowercase(b)

\* ------------------------------------------------------- rows and tables
\* The rows a command may carry (EntityRow, ArchitectureRow, PortRow,
\* DependencyRow, SymbolRow), as deserialized from the JSON line.
k_instantiation == "instantiation"
k_use == "use"

EntityRows ==
    { [name |-> s_core, file |-> s_a_vhd, line |-> 1],
      [name |-> s_core_tb, file |-> s_a_vhd, line |-> 1] }

ArchitectureRows ==
    { [name |-> s_rtl, entity_name |-> s_core, file |-> s_b_vhd, line |-> 2],
      [name |-> s_rtl, entity_name |-> s_Core, file |-> s_b_vhd, line |-> 2] }

PortRows ==
    { [entity |-> s_core, name |-> s_clk, direction |-> "in", file |-> s_a_vhd, line |-> 2] }

DependencyRows ==
    { [file |-> s_b_vhd, target |-> s_core, kind |-> k_instantiation, line |-> 1],
      [file |-> s_b_vhd, target |-> s_core, kind |-> k_use, line |-> 1] }

SymbolRows == { [name |-> s_core] }

\* Sequences over S of length at most n.
SeqsUpTo(S, n) == UNION { [1..k -> S] : k \in 0..n }

\* struct Tables: five row vectors, each defaulting to empty.
NoTables ==
    [entities |-> <<>>, architectures |-> <<>>, ports |-> <<>>,
     dependencies |-> <<>>, symbols |-> <<>>]

TableRowCount(t) ==
    Len(t.entities) + Len(t.architectures) + Len(t.ports)
        + Len(t.dependencies) + Len(t.symbols)

TablesU ==
    { t \in [entities : SeqsUpTo(EntityRows, MaxRows),
             architectures : SeqsUpTo(ArchitectureRows, MaxRows),
             ports : SeqsUpTo(PortRows, MaxRows),
             dependencies : SeqsUpTo(DependencyRows, MaxRows),
             symbols : SeqsUpTo(SymbolRows, MaxRows)] :
        TableRowCount(t) <= MaxRows }

\* ----------------------------------------------------------- collections
\* A differential-dataflow collection: data with a non-zero integer weight
\* (isize diff), kept consolidated.
EmptyCollection == << >>

Weight(c, d) == IF d \in DOMAIN c THEN c[d] ELSE 0

Consolidated(D, w(_)) == [d \in {x \in D : w(x) # 0} |-> w(d)]

RECURSIVE SumWeights(_, _)
SumWeights(c, S) ==
    IF S = {} THEN 0
    ELSE LET d == CHOOSE x \in S : TRUE IN c[d] + SumWeights(c, S \ {d})

\* The operators below take their operands through a bound variable
\* (x \in {a}), so that each operand is evaluated once.

\* Collection::concat
Concat(a, b) ==
    CHOOSE c \in { Consolidated(DOMAIN x \cup DOMAIN y,
                                LAMBDA d : Weight(x, d) + Weight(y, d)) :
                       x \in {a}, y \in {b} } : TRUE

\* Collection::negate
Negate(a) == CHOOSE c \in { [d \in DOMAIN x |-> 0 - x[d]] : x \in {a} } : TRUE

\* Collection::filter
Filter(a, p(_)) ==
    CHOOSE c \in { [d \in {e \in DOMAIN x : p(e)} |-> x[d]] : x \in {a} } : TRUE

\* Collection::map: data that map to the same value add their weights.
MapCollection(a, f(_)) ==
    CHOOSE c \in { Consolidated({f(d) : d \in DOMAIN x},
                                LAMBDA y : SumWeights(x, {d \in DOMAIN x : f(d) = y})) :
                       x \in {a} } : TRUE

\* join_map(&other, |key, payload, _| (key.clone(), payload.clone())) on
\* collections of <<key, value>>: one output per matching pair, weights multiply.
JoinMap(a, b) ==
    CHOOSE c \in { Consolidated(DOMAIN x,
                                LAMBDA d : x[d] * SumWeights(y, {e \in DOMAIN y :
                                                                   e[1] = d[1]})) :
                       x \in {a}, y \in {b} } : TRUE

\* The change of a join when both inputs change: the join is bilinear, so the
\* operator emits dA x B + A x dB + dA x dB at the new time.
DeltaJoin(a, da, b, db) ==
    CHOOSE c \in { Concat(Concat(JoinMap(dx, y), JoinMap(x, dy)), JoinMap(dx, dy)) :
                       x \in {a}, dx \in {da}, y \in {b}, dy \in {db} } : TRUE

\* Number of positions of a row vector whose row projects to element e.
Occurrences(rows, proj(_), e) == Cardinality({i \in 1..Len(rows) : proj(rows[i]) = e})

\* The updates one loop of apply_tables makes on one session.
RowUpdates(rows, proj(_), weight) ==
    Consolidated({proj(rows[i]) : i \in 1..Len(rows)},
                 LAMBDA e : weight * Occurrences(rows, proj, e))

EntityElem(ent) == <<ent.name, ent.file, ent.line>>
ArchitectureElem(arch) == <<arch.entity_name, arch.file, arch.line, arch.name>>
PortElem(port) == <<port.entity, port.name>>
DependencyElem(dep) == <<dep.target, dep.file, dep.line, dep.kind>>
SymbolElem(sym) == sym.name

NoUpdates ==
    [entities |-> EmptyCollection, architectures |-> EmptyCollection,
     ports |-> EmptyCollection, dependencies |-> EmptyCollection,
     symbols |-> EmptyCollection]

\* Variant: every row is updated with weight 1, removed tables included.
apply_tables_always_adds(tables, weight) ==
    [entities |-> RowUpdates(tables.entities, EntityElem, 1),
     architectures |-> RowUpdates(tables.architectures, ArchitectureElem, 1),
     ports |-> RowUpdates(tables.ports, PortElem, 1),
     dependencies |-> RowUpdates(tables.dependencies, DependencyElem, 1),
     symbols |-> RowUpdates(tables.symbols, SymbolElem, 1)]

\* apply_tables: one update per row, with the given weight.
apply_tables(tables, weight) ==
    [entities |-> RowUpdates(tables.entities, EntityElem, weight),
     architectures |-> RowUpdates(tables.architectures, ArchitectureElem, weight),
     ports |-> RowUpdates(tables.ports, PortElem, weight),
     dependencies |-> RowUpdates(tables.dependencies, DependencyElem, weight),
     symbols |-> RowUpdates(tables.symbols, SymbolElem, weight)]

\* Updates buffered on the five sessions add up.
MergeUpdates(u, v) ==
    [entities |-> Concat(u.entities, v.entities),
     architectures |-> Concat(u.architectures, v.architectures),
     ports |-> Concat(u.ports, v.ports),
     dependencies |-> Concat(u.dependencies, v.dependencies),
     symbols |-> Concat(u.symbols, v.symbols)]

\* -------------------------------------------------------------- dataflow
\* The keyed collections at the head of the dataflow (to_collection().map()).
KeyedRows(sess) ==
    [entity_rows |->
        MapCollection(sess.entities, LAMBDA e : <<e[1], <<e[2], e[3], e[1]>>>>),
     arch_rows |->
        MapCollection(sess.architectures, LAMBDA a : <<a[1], <<a[2], a[3], a[4]>>>>),
     port_entities |->
        MapCollection(sess.ports, LAMBDA p : <<p[1], <<>>>>),
     dep_rows |->
        MapCollection(sess.dependencies, LAMBDA d : <<d[1], <<d[2], d[3], d[4], d[1]>>>>),
     sym_rows |->
        MapCollection(sess.symbols, LAMBDA n : <<n, <<>>>>)]

\* struct ViolationKey
ViolationKey(rule, severity, file, line, message) ==
    [rule |-> rule, severity |-> severity, file |-> file, line |-> line,
     message |-> message]

entities_without_ports(rows, joins) ==
    MapCollection(
        Filter(Concat(rows.entity_rows, Negate(joins.entity_ports)),
               LAMBDA d : ~is_testbench_name(d[2][3])),
        LAMBDA d : ViolationKey("entity_has_ports", "warning", d[2][1], d[2][2],
                                <<"Entity '", d[2][3], "' has no ports defined">>))

orphan_arch(rows, joins) ==
    MapCollection(
        Concat(rows.arch_rows, Negate(joins.arch_with_entity)),
        LAMBDA d : ViolationKey("architecture_has_entity", "error", d[2][1], d[2][2],
                                <<"Architecture '", d[2][3],
                                  "' references undefined entity '", d[1], "'">>))

entities_without_arch(rows, joins) ==
    MapCollection(
        Concat(rows.entity_rows, Negate(joins.entity_with_arch)),
        LAMBDA d : ViolationKey("entity_without_arch", "warning", d[2][1], d[2][2],
                                <<"Entity '", d[2][3], "' has no architecture defined">>))

unresolved(rows, joins) ==
    MapCollection(
        Concat(Filter(rows.dep_rows, LAMBDA d : d[2][3] = k_instantiation),
               Negate(joins.dep_symbols)),
        LAMBDA d : ViolationKey("unresolved_dependency", "error", d[2][1], d[2][2],
                                <<"Unresolved dependency: '", d[2][4], "'">>))

\* The collection `all` that inspect observes.
all(rows, joins) ==
    Concat(Concat(Concat(entities_without_ports(rows, joins), orphan_arch(rows, joins)),
                  entities_without_arch(rows, joins)),
           unresolved(rows, joins))

\* The four joins over the accumulated inputs.
Joins(rows) ==
    [entity_ports |-> JoinMap(rows.entity_rows, rows.port_entities),
     arch_with_entity |-> JoinMap(rows.arch_rows, rows.entity_rows),
     entity_with_arch |-> JoinMap(rows.entity_rows, rows.arch_rows),
     dep_symbols |-> JoinMap(rows.dep_rows, rows.sym_rows)]

\* What the four joins emit when the inputs `rows` receive the updates `d`.
JoinDiffs(rows, d) ==
    [entity_ports |->
        DeltaJoin(rows.entity_rows, d.entity_rows, rows.port_entities, d.port_entities),
     arch_with_entity |->
        DeltaJoin(rows.arch_rows, d.arch_rows, rows.entity_rows, d.entity_rows),
     entity_with_arch |->
        DeltaJoin(rows.entity_rows, d.entity_rows, rows.arch_rows, d.arch_rows),
     dep_symbols |->
        DeltaJoin(rows.dep_rows, d.dep_rows, rows.sym_rows, d.sym_rows)]

\* The contents of `all` for given contents of the five inputs.
AllViolations(sess) ==
    CHOOSE c \in { all(rows, Joins(rows)) : rows \in {KeyedRows(sess)} } : TRUE

\* The diffs `all` delivers to inspect when the flushed updates `upd` reach
\* inputs holding `sess`: every operator but the joins is linear.
ViolationDiffs(sess, upd) ==
    CHOOSE c \in { all(d, joins) :
                       <<d, joins>> \in { <<new, JoinDiffs(old, new)>> :
                                            old \in {KeyedRows(sess)},
                                            new \in {KeyedRows(upd)} } } : TRUE

\* inspect closure: *entry += diff, and the entry is removed at zero.
inspect(map, diffs) == Concat(map, diffs)

\* Variant: the response is built without stepping the worker.
step_not_taken(map, diffs) == map

\* worker.step() until the probe is no longer less than the sessions' time:
\* every diff of the flushed updates has been through inspect.
step_until_caught_up(map, diffs) == inspect(map, diffs)

\* -------------------------------------------------------------- response
\* list.sort_by(|a, b| a.file.cmp(&b.file).then(a.line.cmp(&b.line))): the
\* comparator's "not greater" relation.
SortKeyLeq(a, b) ==
    \/ StrLess(a.file, b.file)
    \/ a.file = b.file /\ a.line <= b.line

CountSeverity(list, sev) == Cardinality({i \in 1..Len(list) : list[i].severity = sev})

\* struct Summary, filled as build_response fills it.
SummaryOf(list) ==
    [total_violations |-> Len(list),
     errors |-> CountSeverity(list, "error"),
     warnings |-> CountSeverity(list, "warning"),
     info |-> CountSeverity(list, "info")]

\* The violations build_response keeps.
Present(violations) == {key \in DOMAIN violations : violations[key] > 0}

\* The lists build_response can produce: the kept keys arrive in the hash
\* map's iteration order, which is arbitrary, and the stable sort orders them
\* by (file, line) only.
SortedLists(keys) ==
    { list \in [1..Cardinality(keys) -> keys] :
        /\ \A i, j \in 1..Cardinality(keys) : i # j => list[i] # list[j]
        /\ \A i, j \in 1..Cardinality(keys) : i < j => SortKeyLeq(list[i], list[j]) }

\* build_response, one Response per possible iteration order.
build_response(violations) ==
    { [kind |-> "snapshot", summary |-> SummaryOf(list), violations |-> list] :
        list \in SortedLists(Present(violations)) }

\* No response object has been written yet.
NoResponse == [kind |-> "none", summary |-> SummaryOf(<<>>), violations |-> <<>>]

\* ----------------------------------------------------------------- lines
\* A line of stdin: text that is no JSON object, or a JSON object with the
\* fields of struct Command (kind is required, the tables default to empty).
TextLine(text) ==
    [form |-> "text", text |-> text, has_kind |-> FALSE, kind |-> "",
     tables |-> NoTables, added |-> NoTables, removed |-> NoTables]

ObjectLine(has_kind, kind, tables, added, removed) ==
    [form |-> "object", text |-> <<"{">>, has_kind |-> has_kind, kind |-> kind,
     tables |-> tables, added |-> added, removed |-> removed]

\* The added and the removed tables of delta commands.
DeltaTablesU == { t \in TablesU : TableRowCount(t) <= MaxDeltaRows }

\* Tables values carried by commands that do not read them.
StrayTablesU ==
    { t \in TablesU : TableRowCount(t) <= 1 /\ TableRowCount(t) = Len(t.entities) }

Lines ==
    { TextLine(<<>>), TextLine(<<" ">>), TextLine(<<"{">>) }
    \cup { ObjectLine(FALSE, "", NoTables, NoTables, NoTables) }
    \cup { ObjectLine(TRUE, "init", t, NoTables, NoTables) : t \in TablesU }
    \cup { ObjectLine(TRUE, "delta", NoTables, a, r) :
                a \in DeltaTablesU, r \in DeltaTablesU }
    \cup { ObjectLine(TRUE, "snapshot", t, NoTables, NoTables) : t \in StrayTablesU }
    \cup { ObjectLine(TRUE, "reset", t, NoTables, NoTables) : t \in StrayTablesU }

\* One line of each kind the worker tells apart.
ProtoLines ==
    LET core == [entities |-> <<[name |-> s_core, file |-> s_a_vhd, line |-> 1]>>,
                 architectures |-> <<>>, ports |-> <<>>, dependencies |-> <<>>,
                 symbols |-> <<>>]
        core_tb == [entities |-> <<[name |-> s_core_tb, file |-> s_a_vhd, line |-> 1]>>,
                    architectures |-> <<>>, ports |-> <<>>, dependencies |-> <<>>,
                    symbols |-> <<>>]
    IN  { TextLine(<<" ">>), TextLine(<<"{">>),
          ObjectLine(TRUE, "reset", core, NoTables, NoTables),
          ObjectLine(TRUE, "snapshot", core, NoTables, NoTables),
          ObjectLine(TRUE, "init", core, NoTables, NoTables),
          ObjectLine(TRUE, "delta", NoTables, core_tb, core) }

\* A line that holds nothing but white space.
OnlyWhitespace(line) == line.form = "text" /\ \A i \in 1..Len(line.text) : line.text[i] = " "

\* line.trim().is_empty()
is_blank(line) == line.form = "text" /\ trim_is_empty(line.text)

\* serde_json::from_str::<Command>(&line)
from_str(line) ==
    IF line.form = "object" /\ line.has_kind
    THEN [ok |-> TRUE,
          cmd |-> [kind |-> line.kind, tables |-> line.tables,
                   added |-> line.added, removed |-> line.removed]]
    ELSE [ok |-> FALSE,
          cmd |-> [kind |-> "", tables |-> NoTables,
                   added |-> NoTables, removed |-> NoTables]]

\* The arms of `match cmd.kind.as_str()` that fall through to the response.
is_known_kind(kind) == kind \in {"init", "delta", "snapshot"}

\* Variant: the snapshot arm applies the tables its command carries.
command_updates_snapshot_applies(cmd) ==
    CASE cmd.kind = "init" -> apply_tables(cmd.tables, 1)
      [] cmd.kind = "delta" ->
            MergeUpdates(apply_tables(cmd.added, 1), apply_tables(cmd.removed, 0 - 1))
      [] OTHER -> apply_tables(cmd.tables, 1)

\* The session updates the matched arm makes.
command_updates(cmd) ==
    CASE cmd.kind = "init" -> apply_tables(cmd.tables, 1)
      [] cmd.kind = "delta" ->
            MergeUpdates(apply_tables(cmd.added, 1), apply_tables(cmd.removed, 0 - 1))
      [] OTHER -> NoUpdates

\* Variant: the newest line is received first.
recv_newest(ch) == [msg |-> ch[Len(ch)], rest |-> SubSeq(ch, 1, Len(ch) - 1)]

\* guard.recv() on a non-empty channel: the oldest line and what stays queued.
recv(ch) == [msg |-> Head(ch), rest |-> Tail(ch)]

\* ----------------------------------------------------------------- state
VARIABLES
    reader,            \* the reader thread: "reading" or "exited" (tx dropped)
    lines_read,        \* lines the reader has taken from stdin
    channel,           \* the mpsc channel: lines sent and not yet received
    worker,            \* the worker loop: "loop" or "exited"
    epoch,             \* let mut epoch: u64
    time,              \* the time the five input sessions stand at
    sessions,          \* accumulated contents of the five input sessions
    violations_state,  \* HashMap<ViolationKey, isize> filled by inspect
    stdout,            \* objects written: which line each answers, and its kind
    response,          \* the last Response written to stdout
    answered,          \* kinds of the commands answered with a Response, in order
    blank_read,        \* for each line read from stdin, whether it was blank
    trail,             \* history: the last two delta commands handled in a row,
                       \* each with the base and the Response it found
    batch_input,       \* vhdl_policy: the Input deserialized from the file or stdin
    batch_result       \* vhdl_policy: the Result that engine::evaluate returned

\* The variables of the batch binary, which the service never touches.
batch_vars == <<batch_input, batch_result>>

vars ==
    <<reader, lines_read, channel, worker, epoch, time, sessions, violations_state,
      stdout, response, answered, blank_read, trail, batch_input, batch_result>>

\* vhdl_policy has not read its input.
NoInput == [read |-> FALSE]

\* engine::evaluate has not returned.
NoResult == [evaluated |-> FALSE]

\* The service after construction.
ServiceInit ==
    /\ reader = "reading"
    /\ lines_read = 0
    /\ channel = <<>>
    /\ worker = "loop"
    /\ epoch = 1
    /\ time = 0
    /\ sessions = NoUpdates
    /\ violations_state = EmptyCollection
    /\ stdout = <<>>
    /\ response = NoResponse
    /\ answered = <<>>
    /\ blank_read = <<>>
    /\ trail = <<>>

Init ==
    /\ ServiceInit
    /\ batch_input = NoInput
    /\ batch_result = NoResult

\* ---------------------------------------------------------------- reader
\* for line in stdin.lock().lines(): Ok(line) => tx.send(line)
ReaderSend(lines, max_lines, max_queue) ==
    /\ reader = "reading"
    /\ lines_read < max_lines
    /\ Len(channel) < max_queue
    /\ \E line \in lines :
        /\ channel' = Append(channel, [id |-> lines_read + 1, line |-> line])
        /\ blank_read' = Append(blank_read, OnlyWhitespace(line))
    /\ lines_read' = lines_read + 1
    /\ UNCHANGED <<reader, worker, epoch, time, sessions, violations_state, stdout,
                   response, answered>>
    /\ UNCHANGED trail
    /\ UNCHANGED batch_vars

\* stdin is closed (the iterator ends) or a read fails: the thread returns and
\* tx is dropped. The send-error break cannot happen: the worker drops rx only
\* after recv has failed, which needs tx dropped first.
ReaderExit ==
    /\ reader = "reading"
    /\ reader' = "exited"
    /\ UNCHANGED <<lines_read, channel, worker, epoch, time, sessions,
                   violations_state, stdout, response, answered, blank_read>>
    /\ UNCHANGED trail
    /\ UNCHANGED batch_vars

\* ---------------------------------------------------------------- worker
\* One iteration of the loop that ends at `continue` without output.
WorkerBlank ==
    /\ worker = "loop"
    /\ channel # <<>>
    /\ LET r == recv(channel) IN
        /\ is_blank(r.msg.line)
        /\ channel' = r.rest
    /\ UNCHANGED <<reader, lines_read, worker, epoch, time, sessions,
                   violations_state, stdout, response, answered, blank_read>>
    /\ UNCHANGED trail
    /\ UNCHANGED batch_vars

\* serde_json::from_str fails: one error object, then `continue`.
WorkerInvalid ==
    /\ worker = "loop"
    /\ channel # <<>>
    /\ LET r == recv(channel) IN
        /\ ~is_blank(r.msg.line)
        /\ ~from_str(r.msg.line).ok
        /\ channel' = r.rest
        /\ stdout' = Append(stdout, [answers |-> r.msg.id, kind |-> "error",
                                     message |-> "invalid command"])
    /\ UNCHANGED <<reader, lines_read, worker, epoch, time, sessions,
                   violations_state, response, answered, blank_read>>
    /\ UNCHANGED trail
    /\ UNCHANGED batch_vars

\* Variant: the tables of a command of unknown kind are applied before the
\* error object is written.
WorkerUnknownKind_applies ==
    /\ worker = "loop"
    /\ channel # <<>>
    /\ LET r == recv(channel) IN
        /\ ~is_blank(r.msg.line)
        /\ from_str(r.msg.line).ok
        /\ ~is_known_kind(from_str(r.msg.line).cmd.kind)
        /\ channel' = r.rest
        /\ stdout' = Append(stdout, [answers |-> r.msg.id, kind |-> "error",
                                     message |-> "unknown command kind"])
        /\ LET upd == apply_tables(from_str(r.msg.line).cmd.tables, 1) IN
            /\ sessions' = MergeUpdates(sessions, upd)
            /\ violations_state' = inspect(violations_state,
                                           ViolationDiffs(sessions, upd))
    /\ UNCHANGED <<reader, lines_read, worker, epoch, time, response, answered,
                   blank_read>>
    /\ UNCHANGED trail
    /\ UNCHANGED batch_vars

\* The `_` arm: one error object, then `continue`.
WorkerUnknownKind ==
    /\ worker = "loop"
    /\ channel # <<>>
    /\ LET r == recv(channel) IN
        /\ ~is_blank(r.msg.line)
        /\ from_str(r.msg.line).ok
        /\ ~is_known_kind(from_str(r.msg.line).cmd.kind)
        /\ channel' = r.rest
        /\ stdout' = Append(stdout, [answers |-> r.msg.id, kind |-> "error",
                                     message |-> "unknown command kind"])
    /\ UNCHANGED <<reader, lines_read, worker, epoch, time, sessions,
                   violations_state, response, answered, blank_read>>
    /\ UNCHANGED trail
    /\ UNCHANGED batch_vars

\* entities.advance_to(epoch) and the same for the other four sessions.
AdvanceSessions == time' = epoch

\* Variant: the epoch is not incremented.
BumpEpoch_forgotten == epoch' = epoch

\* epoch += 1
BumpEpoch == epoch' = epoch + 1

\* The last two entries of a sequence.
LastTwo(seq) == IF Len(seq) <= 2 THEN seq ELSE SubSeq(seq, Len(seq) - 1, Len(seq))

\* An init, delta or snapshot command: the arm's updates, advance_to(epoch),
\* flush, step until the probe has caught up, write the Response, epoch += 1.
WorkerCommand(kind) ==
    /\ worker = "loop"
    /\ channel # <<>>
    /\ LET r == recv(channel)
           parsed == from_str(r.msg.line)
       IN
        /\ ~is_blank(r.msg.line)
        /\ parsed.ok
        /\ is_known_kind(parsed.cmd.kind)
        /\ parsed.cmd.kind = kind
        /\ \E upd \in {command_updates(parsed.cmd)} :
            \E map \in {step_until_caught_up(violations_state,
                                             ViolationDiffs(sessions, upd))} :
                /\ sessions' = MergeUpdates(sessions, upd)
                /\ violations_state' = map
                /\ \E resp \in build_response(map) : response' = resp
        /\ channel' = r.rest
        /\ stdout' = Append(stdout, [answers |-> r.msg.id, kind |-> "snapshot",
                                     message |-> ""])
        /\ answered' = Append(answered, kind)
        /\ trail' = IF kind = "delta"
                    THEN LastTwo(Append(trail, [added |-> parsed.cmd.added,
                                                removed |-> parsed.cmd.removed,
                                                sessions |-> sessions,
                                                response |-> response]))
                    ELSE <<>>
    /\ AdvanceSessions
    /\ BumpEpoch
    /\ UNCHANGED <<reader, lines_read, worker, blank_read>>
    /\ UNCHANGED batch_vars

WorkerInit == WorkerCommand("init")

WorkerDelta == WorkerCommand("delta")

WorkerSnapshot == WorkerCommand("snapshot")

\* Variant: the worker stops as soon as tx is dropped, whatever is queued.
WorkerExit_early ==
    /\ worker = "loop"
    /\ reader = "exited"
    /\ worker' = "exited"
    /\ UNCHANGED <<reader, lines_read, channel, epoch, time, sessions,
                   violations_state, stdout, response, answered, blank_read>>
    /\ UNCHANGED trail
    /\ UNCHANGED batch_vars

\* guard.recv() returns Err: the channel is empty and tx is dropped.
WorkerExit ==
    /\ worker = "loop"
    /\ channel = <<>>
    /\ reader = "exited"
    /\ worker' = "exited"
    /\ UNCHANGED <<reader, lines_read, channel, epoch, time, sessions,
                   violations_state, stdout, response, answered, blank_read>>
    /\ UNCHANGED trail
    /\ UNCHANGED batch_vars

WorkerStep ==
    \/ WorkerBlank
    \/ WorkerInvalid
    \/ WorkerUnknownKind
    \/ WorkerInit
    \/ WorkerDelta
    \/ WorkerSnapshot
    \/ WorkerExit

Next ==
    \/ ReaderSend(Lines, MaxLines, MaxQueue)
    \/ ReaderExit
    \/ WorkerBlank
    \/ WorkerInvalid
    \/ WorkerUnknownKind
    \/ WorkerInit
    \/ WorkerDelta
    \/ WorkerSnapshot
    \/ WorkerExit

Spec == Init /\ [][Next]_vars

\* The same program reading from the short list of lines, with a longer
\* input and a deeper channel.
ProtoNext ==
    \/ ReaderSend(ProtoLines, ProtoMaxLines, ProtoMaxQueue)
    \/ ReaderExit
    \/ WorkerBlank
    \/ WorkerInvalid
    \/ WorkerUnknownKind
    \/ WorkerInit
    \/ WorkerDelta
    \/ WorkerSnapshot
    \/ WorkerExit

ProtoSpec == Init /\ [][ProtoNext]_vars

\* The same program reading three lines: blank and invalid ones, commands of
\* every kind, and deltas that add or remove one row.
InverseTables ==
    {NoTables,
     [NoTables EXCEPT !.entities = <<[name |-> s_core, file |-> s_a_vhd, line |-> 1]>>],
     [NoTables EXCEPT !.ports = <<[entity |-> s_core, name |-> s_clk, direction |-> "in",
                                   file |-> s_a_vhd, line |-> 2]>>],
     [NoTables EXCEPT !.dependencies = <<[file |-> s_b_vhd, target |-> s_core,
                                          kind |-> k_instantiation, line |-> 1]>>],
     [NoTables EXCEPT !.symbols = <<[name |-> s_core]>>]}

InverseLines ==
    { TextLine(<<" ">>), TextLine(<<"{">>) }
    \cup { ObjectLine(TRUE, kind, t, NoTables, NoTables) :
              kind \in {"init", "snapshot", "reset"},
              t \in {[NoTables EXCEPT !.entities =
                         <<[name |-> s_core, file |-> s_a_vhd, line |-> 1]>>]} }
    \cup { ObjectLine(TRUE, "delta", NoTables, a, r) :
              a \in InverseTables, r \in InverseTables }

InverseNext ==
    \/ ReaderSend(InverseLines, InverseMaxLines, InverseMaxQueue)
    \/ ReaderExit
    \/ WorkerBlank
    \/ WorkerInvalid
    \/ WorkerUnknownKind
    \/ WorkerInit
    \/ WorkerDelta
    \/ WorkerSnapshot
    \/ WorkerExit

InverseSpec == Init /\ [][InverseNext]_vars

\* The worker is a running thread: whenever it can take a step, it does.
ProtoFairSpec == ProtoSpec /\ WF_vars(WorkerStep)

\* ---------------------------------------------------------- batch engine
\* helpers::is_optional_rule: the rule ids that need an entry in the lint
\* configuration to be reported.
OptionalRules ==
    { "entity_naming", "naming_convention", "entity_has_ports",
      "entity_no_ports_not_tb", "entity_without_arch", "architecture_has_entity",
      "configuration_missing_entity", "component_resolved", "signal_input_naming",
      "signal_output_naming", "active_low_naming", "async_reset_active_high",
      "missing_reset", "instance_naming_convention", "positional_mapping",
      "process_label_missing", "architecture_naming_convention", "empty_architecture",
      "trivial_architecture", "multiple_entities_per_file", "large_entity",
      "wide_signal", "duplicate_signal_name", "single_state_signal",
      "fsm_unreachable_state", "state_signal_not_enum", "fsm_missing_default_state",
      "fsm_unhandled_state", "large_combinational_process", "vhdl2008_sensitivity_all",
      "long_sensitivity_list", "combinational_feedback",
      "empty_sensitivity_combinational", "direct_combinational_loop",
      "two_stage_combinational_loop", "three_stage_combinational_loop",
      "potential_combinational_loop", "cross_process_combinational_loop",
      "sensitivity_list_superfluous", "sensitivity_list_incomplete",
      "missing_reset_sensitivity", "missing_clock_sensitivity", "very_wide_register",
      "mixed_edge_clocking", "async_reset_naming", "sparse_port_map", "empty_port_map",
      "instance_name_matches_component", "repeated_component_instantiation",
      "many_instances", "hardcoded_port_value", "open_port_connection",
      "floating_instance_input", "very_long_file", "large_package",
      "short_signal_name", "long_signal_name", "short_port_name",
      "entity_name_with_numbers", "mixed_port_directions", "bidirectional_port",
      "unused_signal", "undriven_signal", "undriven_output_port", "inout_as_input",
      "inout_as_output", "unresolved_dependency", "undeclared_signal_usage",
      "multi_driven_signal", "unused_input_port", "duplicate_signal_in_entity",
      "duplicate_port_in_entity", "duplicate_entity_in_file", "file_entity_mismatch",
      "many_signals", "buffer_port", "deep_generate_nesting", "unlabeled_generate",
      "magic_width_number", "hardcoded_generic", "multiple_clock_domains",
      "multiple_clocks_in_process", "very_wide_bus", "critical_signal_no_reset",
      "combinational_reset", "unregistered_output", "potential_memory_inference",
      "complex_process", "legacy_packages", "testbench_with_ports",
      "mismatched_tb_architecture", "tb_with_synth_arch",
      "combinational_incomplete_assignment", "comb_process_no_default",
      "conditional_assignment_review", "selected_assignment_review",
      "combinational_default_values", "enum_case_incomplete", "fsm_no_reset_state",
      "mixed_signedness", "large_literal_comparison", "magic_number_comparison",
      "counter_trigger", "inverted_trigger", "multi_trigger_process",
      "cdc_unsync_single_bit", "cdc_unsync_multi_bit", "cdc_insufficient_sync",
      "async_reset_unsynchronized", "partial_reset_domain", "short_reset_sync",
      "reset_crosses_domains", "combinational_reset_gen", "potential_latch",
      "incomplete_case_latch", "reset_not_std_logic", "clock_not_std_logic",
      "signal_in_seq_and_comb", "unguarded_multiplication", "unguarded_division",
      "unguarded_exponent", "power_hotspot", "combinational_multiplier", "weak_guard",
      "dsp_candidate_no_control", "clock_gating_opportunity", "gated_clock_detection",
      "signal_crosses_clock_domain", "port_width_mismatch", "input_port_driven",
      "procedure_param_invalid_mode", "function_param_invalid_mode",
      "trigger_drives_output" }

\* Variant: entity_has_ports is missing from the list.
is_optional_rule_short(rule) == rule \in OptionalRules \ {"entity_has_ports"}

is_optional_rule(rule) == rule \in OptionalRules

\* Variant: only the gating of optional rules, "off" is not looked at.
rule_is_disabled_ignores_off(input, rule) ==
    is_optional_rule(rule) /\ rule \notin DOMAIN input.lint_config.rules

\* helpers::rule_is_disabled; lint_config.rules is a map from rule id to string.
rule_is_disabled(input, rule) ==
    \/ rule \in DOMAIN input.lint_config.rules /\ input.lint_config.rules[rule] = "off"
    \/ is_optional_rule(rule) /\ rule \notin DOMAIN input.lint_config.rules

\* helpers::is_third_party_file
is_third_party_file(input, file) ==
    \E i \in 1..Len(input.third_party_files) :
        file = input.third_party_files[i] \/ ends_with(file, input.third_party_files[i])

\* A string of the model as the literal it spells.
RECURSIVE as_str(_)
as_str(s) == IF s = <<>> THEN "" ELSE Head(s) \o as_str(Tail(s))

\* helpers::is_resolved_type
is_resolved_type(type_str) ==
    LET lower == to_ascii_lowercase(type_str) IN
    \/ contains(lower, <<"s", "t", "d", "_", "l", "o", "g", "i", "c">>)
    \/ contains(lower, <<"s", "t", "d", "_", "l", "o", "g", "i", "c", "_", "v", "e", "c", "t", "o", "r">>)
    \/ contains(lower, <<"s", "i", "g", "n", "e", "d">>)
    \/ contains(lower, <<"u", "n", "s", "i", "g", "n", "e", "d">>)

\* helpers::is_resolved_signal
is_resolved_signal(input, name) ==
    \/ \E i \in 1..Len(input.signals) :
          /\ eq_ignore_ascii_case(input.signals[i].name, name)
          /\ is_resolved_type(input.signals[i].type)
    \/ \E i \in 1..Len(input.ports) :
          /\ eq_ignore_ascii_case(input.ports[i].name, name)
          /\ is_resolved_type(input.ports[i].type)

\* helpers::file_in_testbench
file_in_testbench(input, file) ==
    \E i \in 1..Len(input.entities) :
        /\ input.entities[i].file = file
        /\ helpers_is_testbench_name(input.entities[i].name)

\* helpers::process_in_testbench
process_in_testbench(input, proc) ==
    \E i \in 1..Len(input.architectures) :
        /\ eq_ignore_ascii_case(input.architectures[i].name, proc.in_arch)
        /\ helpers_is_testbench_name(input.architectures[i].entity_name)

\* helpers::is_enum_literal
is_enum_literal(input, name) ==
    \E i \in 1..Len(input.enum_literals) :
        eq_ignore_ascii_case(input.enum_literals[i], name)

\* helpers::is_constant
is_constant(input, name) ==
    \E i \in 1..Len(input.constants) : eq_ignore_ascii_case(input.constants[i], name)

\* The lists of helpers::is_skip_name: loop indices, severity and file-status
\* names, type names, attribute names, conversion functions, keywords.
SkipIndexNames ==
    { "i", "j", "k", "n", "r", "idx", "index", "x", "y" }

SkipSeverityNames ==
    { "open_ok", "status_error", "name_error", "mode_error", "read_mode",
      "write_mode", "append_mode", "trace", "debug", "info", "warning",
      "error", "failure", "fatal" }

SkipTypeNames ==
    { "std_logic", "std_ulogic", "std_logic_vector", "std_ulogic_vector",
      "integer", "natural", "positive", "boolean", "bit", "bit_vector",
      "signed", "unsigned", "real", "time", "character", "string" }

SkipAttributeNames ==
    { "left", "right", "high", "low", "range", "reverse_range", "length",
      "ascending", "image", "value", "pos", "val", "succ", "pred", "leftof",
      "rightof", "event", "active", "last_event", "last_active",
      "last_value", "driving", "driving_value", "simple_name",
      "instance_name", "path_name" }

SkipFunctionNames ==
    { "to_integer", "to_unsigned", "to_signed", "to_stdulogicvector",
      "to_stdlogicvector", "to_bitvector", "to_bit", "to_stdulogic",
      "to_stdlogic", "std_logic_vector", "conv_integer", "conv_unsigned",
      "conv_signed", "conv_std_logic_vector", "resize", "shift_left",
      "shift_right", "rotate_left", "rotate_right", "rising_edge",
      "falling_edge", "now", "or_reduce", "and_reduce", "xor_reduce",
      "nand_reduce", "nor_reduce", "xnor_reduce", "minimum", "maximum" }

SkipKeywords ==
    { "downto", "to", "range", "others", "all", "open", "null", "true",
      "false", "and", "or", "not", "xor", "nand", "nor", "xnor", "mod",
      "rem", "abs", "sll", "srl", "sla", "sra", "rol", "ror", "is", "of",
      "if", "then", "else", "elsif", "end", "when", "loop", "for", "while",
      "next", "exit", "return", "case", "select", "with", "after",
      "transport", "inertial", "reject", "generate", "assert", "report",
      "severity", "wait", "until" }

\* Regex ^[A-Z]+_ : one or more capitals, then an underscore.
matches_capitals_underscore(name) ==
    \E k \in 1..(Len(name) - 1) :
        /\ \A i \in 1..k : \E u \in 1..26 : UpperChars[u] = name[i]
        /\ name[k + 1] = "_"

\* helpers::is_skip_name
is_skip_name(input, name) ==
    LET lower == to_ascii_lowercase(name) IN
    \/ starts_with(lower, <<"c", "_">>)
    \/ ends_with(lower, <<"_", "c">>)
    \/ ends_with(lower, <<"_", "v">>)
    \/ ends_with(lower, <<"_", "f">>)
    \/ ends_with(lower, <<"_", "g">>)
    \/ starts_with(lower, <<"g", "_">>)
    \/ name = to_ascii_uppercase(name) /\ Len(name) > 1
    \/ matches_capitals_underscore(name)
    \/ as_str(lower) \in SkipIndexNames
    \/ as_str(lower) \in SkipSeverityNames
    \/ \E i \in 1..Len(input.generates) :
          /\ input.generates[i].loop_var # <<>>
          /\ eq_ignore_ascii_case(input.generates[i].loop_var, name)
    \/ as_str(lower) \in SkipTypeNames
    \/ as_str(lower) \in SkipAttributeNames
    \/ as_str(lower) \in SkipFunctionNames
    \/ as_str(lower) \in SkipKeywords

\* helpers::is_actual_signal
is_actual_signal(input, name) ==
    /\ ~is_enum_literal(input, name)
    /\ ~is_constant(input, name)
    /\ ~is_skip_name(input, name)

\* engine::is_valid_severity
is_valid_severity(sev) == sev \in {"error", "warning", "info"}

\* Variant: the configured severity is not applied.
final_severity_kept(input, v) == v.severity

\* The severity filter_violations gives a finding it keeps.
final_severity(input, v) ==
    IF v.rule \in DOMAIN input.lint_config.rules
          /\ is_valid_severity(input.lint_config.rules[v.rule])
    THEN input.lint_config.rules[v.rule]
    ELSE v.severity

\* let value = ...; body: the value is computed once.
Bind(value, body(_)) == CHOOSE r \in {body(v) : v \in {value}} : TRUE

\* Vec::iter().map(f).collect()
MapSeq(seq, f(_)) == [i \in 1..Len(seq) |-> f(seq[i])]

\* Vec::iter().filter(p).collect()
FilterSeq(seq, p(_)) == SelectSeq(seq, p)

\* Variant: findings in third-party files are not dropped.
filter_violations_keeps_third_party(input, violations) ==
    MapSeq(FilterSeq(violations, LAMBDA v : ~rule_is_disabled(input, v.rule)),
           LAMBDA v : [v EXCEPT !.severity = final_severity(input, v)])

\* engine::filter_violations
filter_violations(input, violations) ==
    MapSeq(FilterSeq(violations,
                     LAMBDA v : /\ ~rule_is_disabled(input, v.rule)
                                /\ ~is_third_party_file(input, v.file)),
           LAMBDA v : [v EXCEPT !.severity = final_severity(input, v)])

\* core::entity_exists
entity_exists(input, name) ==
    \E i \in 1..Len(input.entities) : eq_ignore_ascii_case(input.entities[i].name, name)

\* core::has_architecture
has_architecture(input, entity_name) ==
    \E i \in 1..Len(input.architectures) :
        eq_ignore_ascii_case(input.architectures[i].entity_name, entity_name)

\* core::missing_ports
missing_ports(input) ==
    MapSeq(FilterSeq(input.entities,
                     LAMBDA entity : /\ entity.ports = <<>>
                                     /\ ~helpers_is_testbench_name(entity.name)),
           LAMBDA entity :
               ViolationKey("entity_has_ports", "warning", entity.file, entity.line,
                            <<"Entity '", entity.name, "' has no ports defined">>))

\* core::orphan_architecture
orphan_architecture(input) ==
    MapSeq(FilterSeq(input.architectures,
                     LAMBDA arch : ~entity_exists(input, arch.entity_name)),
           LAMBDA arch :
               ViolationKey("architecture_has_entity", "error", arch.file, arch.line,
                            <<"Architecture '", arch.name,
                              "' references undefined entity '", arch.entity_name, "'">>))

\* core::unresolved_dependency
unresolved_dependency(input) ==
    MapSeq(FilterSeq(input.dependencies,
                     LAMBDA dep : ~dep.resolved /\ dep.kind = k_instantiation),
           LAMBDA dep :
               ViolationKey("unresolved_dependency", "error", dep.source, dep.line,
                            <<"Unresolved dependency: '", dep.target, "'">>))

\* core::entity_without_arch
entity_without_arch(input) ==
    MapSeq(FilterSeq(input.entities,
                     LAMBDA entity : ~has_architecture(input, entity.name)),
           LAMBDA entity :
               ViolationKey("entity_without_arch", "warning", entity.file, entity.line,
                            <<"Entity '", entity.name, "' has no architecture defined">>))

s_work == <<"w", "o", "r", "k">>

\* core::file_library_map: the library of each listed path (the last entry
\* of a path wins), "work" when the entry names none.
file_library_map(input) ==
    [path \in {input.files[i].path : i \in 1..Len(input.files)} |->
        LET last == CHOOSE i \in 1..Len(input.files) :
                        /\ input.files[i].path = path
                        /\ \A j \in (i + 1)..Len(input.files) : input.files[j].path # path
        IN IF input.files[last].library = <<>> THEN s_work
           ELSE to_ascii_lowercase(input.files[last].library)]

\* core::library_for_file
library_for_file(map, file) == IF file \in DOMAIN map THEN map[file] ELSE s_work

\* The loop of core::duplicate_entity_in_library over the entities not yet
\* visited; seen maps (library, lower-cased name) to the first definition.
RECURSIVE duplicate_entity_scan(_, _, _, _)
duplicate_entity_scan(input, lib_map, entities, seen) ==
    IF entities = <<>> THEN <<>>
    ELSE LET entity == Head(entities)
             lib == library_for_file(lib_map, entity.file)
             key == <<lib, to_ascii_lowercase(entity.name)>>
         IN IF is_third_party_file(input, entity.file)
            THEN duplicate_entity_scan(input, lib_map, Tail(entities), seen)
            ELSE IF key \in DOMAIN seen
            THEN IF entity.file = seen[key].file
                 THEN duplicate_entity_scan(input, lib_map, Tail(entities), seen)
                 ELSE <<ViolationKey("duplicate_entity_in_library", "error",
                                     entity.file, entity.line,
                                     <<"Entity '", entity.name,
                                       "' is defined multiple times in library '", lib,
                                       "' (first seen at ", seen[key].file, ":",
                                       seen[key].line, ")">>)>>
                      \o duplicate_entity_scan(input, lib_map, Tail(entities), seen)
            ELSE duplicate_entity_scan(input, lib_map, Tail(entities),
                                       seen @@ (key :> [file |-> entity.file,
                                                        line |-> entity.line]))

\* core::duplicate_entity_in_library
duplicate_entity_in_library(input) ==
    duplicate_entity_scan(input, file_library_map(input), input.entities, << >>)

\* core::violations, for the rules over entities, architectures and
\* dependencies.
core_violations(input) ==
    missing_ports(input) \o orphan_architecture(input)
        \o unresolved_dependency(input) \o entity_without_arch(input)
        \o duplicate_entity_in_library(input)

\* Variant: a sequential write of the target does not break the loop.
direct_combinational_loop_no_register(input) ==
    MapSeq(FilterSeq(input.signal_deps,
                     LAMBDA dep : /\ ~dep.is_sequential /\ dep.source = dep.target
                                  /\ ~file_in_testbench(input, dep.file)
                                  /\ ~is_resolved_signal(input, dep.target)),
           LAMBDA dep :
               ViolationKey("direct_combinational_loop", "error", dep.file, dep.line,
                            <<"Direct combinational loop: signal '", dep.source,
                              "' depends on itself">>))

\* combinational::direct_combinational_loop
direct_combinational_loop(input) ==
    LET sequential_targets ==
            {input.signal_deps[i].target :
                i \in {j \in 1..Len(input.signal_deps) :
                          input.signal_deps[j].is_sequential}}
    IN MapSeq(FilterSeq(input.signal_deps,
                        LAMBDA dep : /\ ~dep.is_sequential /\ dep.source = dep.target
                                     /\ dep.target \notin sequential_targets
                                     /\ ~file_in_testbench(input, dep.file)
                                     /\ ~is_resolved_signal(input, dep.target)),
              LAMBDA dep :
                  ViolationKey("direct_combinational_loop", "error", dep.file, dep.line,
                               <<"Direct combinational loop: signal '", dep.source,
                                 "' depends on itself">>))

\* combinational::filtered_combinational_deps
filtered_combinational_deps(input) ==
    FilterSeq(input.signal_deps,
              LAMBDA dep : /\ ~dep.is_sequential
                           /\ ~is_resolved_signal(input, dep.source)
                           /\ ~is_resolved_signal(input, dep.target))

\* The second loop of combinational::two_stage_loop over the deps not yet
\* visited; edges holds the keys of the edge map, seen the pairs reported.
RECURSIVE two_stage_scan(_, _, _)
two_stage_scan(deps, edges, seen) ==
    IF deps = <<>> THEN <<>>
    ELSE LET dep == Head(deps)
             src == to_ascii_lowercase(dep.source)
             dst == to_ascii_lowercase(dep.target)
             key == IF StrLess(src, dst) THEN <<src, dst>> ELSE <<dst, src>>
             pushes == src # dst /\ <<dst, src>> \in edges /\ key \notin seen
         IN (IF pushes
             THEN <<ViolationKey("two_stage_combinational_loop", "error", dep.file,
                                 dep.line,
                                 <<"Combinational loop detected: '", dep.source,
                                   "' -> '", dep.target, "' -> '", dep.source, "'">>)>>
             ELSE <<>>)
            \o two_stage_scan(Tail(deps), edges,
                              IF pushes THEN seen \cup {key} ELSE seen)

\* Variant: no seen set, every dependency with a reverse edge is reported.
two_stage_loop_unseen(input) ==
    LET deps == filtered_combinational_deps(input)
        edges == {<<to_ascii_lowercase(deps[i].source),
                    to_ascii_lowercase(deps[i].target)>> : i \in 1..Len(deps)}
    IN MapSeq(FilterSeq(deps,
                        LAMBDA dep :
                            /\ to_ascii_lowercase(dep.source) # to_ascii_lowercase(dep.target)
                            /\ <<to_ascii_lowercase(dep.target),
                                 to_ascii_lowercase(dep.source)>> \in edges),
              LAMBDA dep :
                  ViolationKey("two_stage_combinational_loop", "error", dep.file,
                               dep.line,
                               <<"Combinational loop detected: '", dep.source,
                                 "' -> '", dep.target, "' -> '", dep.source, "'">>))

\* combinational::two_stage_loop
two_stage_loop(input) ==
    LET deps == filtered_combinational_deps(input)
        edges == {<<to_ascii_lowercase(deps[i].source),
                    to_ascii_lowercase(deps[i].target)>> : i \in 1..Len(deps)}
    IN two_stage_scan(deps, edges, {})

\* Variant: no seen set, the cycle is reported from each of its edges.
three_stage_loop_unseen(input) ==
    LET deps == filtered_combinational_deps(input)
        lower(i) == <<to_ascii_lowercase(deps[i].source),
                      to_ascii_lowercase(deps[i].target)>>
        closes(i, c) == /\ c # lower(i)[1] /\ c # lower(i)[2]
                        /\ \E j \in 1..Len(deps) : lower(j) = <<lower(i)[2], c>>
                        /\ \E j \in 1..Len(deps) : lower(j) = <<c, lower(i)[1]>>
    IN MapSeq(FilterSeq([i \in 1..Len(deps) |-> i],
                        LAMBDA i : /\ lower(i)[1] # lower(i)[2]
                                   /\ \E j \in 1..Len(deps) : closes(i, lower(j)[1])),
              LAMBDA i :
                  ViolationKey("three_stage_combinational_loop", "error",
                               deps[i].file, deps[i].line,
                               <<"Combinational loop detected: '", deps[i].source, "'">>))

\* combinational::three_stage_loop. adj[x] is the vector of the lower-cased
\* targets of the dependencies from x, in order; names[x] the first spelling
\* of x met; the key of a cycle is its three names sorted and joined by "|".
three_stage_loop(input) ==
    LET deps == filtered_combinational_deps(input)
        src(i) == to_ascii_lowercase(deps[i].source)
        dst(i) == to_ascii_lowercase(deps[i].target)
        adj(x) == MapSeq(FilterSeq([i \in 1..Len(deps) |-> i], LAMBDA i : src(i) = x),
                         dst)
        first(x) == CHOOSE i \in 1..Len(deps) :
                        /\ src(i) = x \/ dst(i) = x
                        /\ \A j \in 1..(i - 1) : src(j) # x /\ dst(j) # x
        names(x) == IF src(first(x)) = x THEN deps[first(x)].source
                    ELSE deps[first(x)].target
        lo(x, y) == IF StrLess(y, x) THEN y ELSE x
        hi(x, y) == IF StrLess(y, x) THEN x ELSE y
        key(a, b, c) ==
            lo(lo(a, b), c) \o <<"|">> \o hi(lo(a, b), lo(hi(a, b), c))
                \o <<"|">> \o hi(hi(a, b), c)
        RECURSIVE nexts_scan(_, _, _)
        nexts_scan(i, nexts, acc) ==
            IF nexts = <<>> THEN acc
            ELSE LET c == Head(nexts)
                     pushes == /\ c # src(i) /\ c # dst(i)
                               /\ \E k \in 1..Len(adj(c)) : adj(c)[k] = src(i)
                               /\ key(src(i), dst(i), c) \notin acc.seen
                 IN nexts_scan(i, Tail(nexts),
                       IF pushes
                       THEN [out |-> Append(acc.out,
                                 ViolationKey("three_stage_combinational_loop", "error",
                                              deps[i].file, deps[i].line,
                                              <<"Combinational loop detected: '",
                                                deps[i].source, "' -> '", names(dst(i)),
                                                "' -> '", names(c), "' -> '",
                                                deps[i].source, "'">>)),
                             seen |-> acc.seen \cup {key(src(i), dst(i), c)}]
                       ELSE acc)
        RECURSIVE deps_scan(_, _)
        deps_scan(i, acc) ==
            IF i > Len(deps) THEN acc
            ELSE deps_scan(i + 1,
                           IF src(i) = dst(i) THEN acc
                           ELSE nexts_scan(i, adj(dst(i)), acc))
    IN deps_scan(1, [out |-> <<>>, seen |-> {}]).out

\* Vec<Vec<T>> flattened in order.
RECURSIVE Flatten(_)
Flatten(seqs) == IF seqs = <<>> THEN <<>> ELSE Head(seqs) \o Flatten(Tail(seqs))

\* The orders in which the iterator of a HashMap or HashSet may yield the
\* elements of S (std's default hasher is seeded at random per process).
Orders(S) ==
    {order \in [1..Cardinality(S) -> S] :
        \A i, j \in 1..Cardinality(S) : order[i] = order[j] => i = j}

\* combinational::cross_process_loop, first loop: the ProcessInfo of every
\* combinational process outside a testbench that assigns and reads at least
\* one actual signal.
process_infos(input) ==
    LET info(proc) ==
            [label |-> proc.label, file |-> proc.file, line |-> proc.line,
             assigned |-> MapSeq(FilterSeq(proc.assigned_signals,
                                           LAMBDA sig : is_actual_signal(input, sig)),
                                 LAMBDA sig : to_ascii_lowercase(sig)),
             read |-> MapSeq(FilterSeq(proc.read_signals,
                                       LAMBDA sig : is_actual_signal(input, sig)),
                             LAMBDA sig : to_ascii_lowercase(sig))]
    IN FilterSeq(MapSeq(FilterSeq(input.processes,
                                  LAMBDA proc : /\ proc.is_combinational
                                                /\ ~process_in_testbench(input, proc)),
                        info),
                 LAMBDA pi : pi.assigned # <<>> /\ pi.read # <<>>)

\* Second loop: pair_map[(a, b)], the processes pushed under the key (a, b),
\* one push per position of a in assigned and of b in read.
pair_map_entry(procs, a, b) ==
    Flatten([k \in 1..Len(procs) |->
                [n \in 1..Cardinality({<<i, j>> \in (1..Len(procs[k].assigned))
                                                       \X (1..Len(procs[k].read)) :
                                          /\ procs[k].assigned[i] = a
                                          /\ procs[k].read[j] = b}) |-> procs[k]]])

\* The keys of pair_map.
pair_map_keys(procs) ==
    UNION {{<<procs[k].assigned[ij[1]], procs[k].read[ij[2]]>> :
               ij \in {p \in (1..Len(procs[k].assigned)) \X (1..Len(procs[k].read)) :
                          procs[k].assigned[p[1]] # procs[k].read[p[2]]}} :
           k \in 1..Len(procs)}

\* The index pairs of two nested loops, in the order the loops visit them.
IndexPairs(n, m) == [k \in 1..(n * m) |-> <<((k - 1) \div m) + 1, ((k - 1) % m) + 1>>]

\* Third loop, for one key (a, b): the findings pushed for the processes under
\* (a, b) and (b, a); a pair of labels is considered once, at its first visit.
cross_process_findings(procs_ab, procs_ba, a, b) ==
    LET pairs == IndexPairs(Len(procs_ab), Len(procs_ba))
        proc1(k) == procs_ab[pairs[k][1]]
        proc2(k) == procs_ba[pairs[k][2]]
        labels(k) == <<proc1(k).label, proc2(k).label>>
        pushes(k) == /\ proc1(k).label # proc2(k).label
                     /\ \A e \in 1..(k - 1) : labels(e) # labels(k)
                     /\ proc1(k).line < proc2(k).line
    IN MapSeq(FilterSeq([k \in 1..Len(pairs) |-> k], pushes),
              LAMBDA k :
                  ViolationKey("cross_process_combinational_loop", "error",
                               proc1(k).file, proc1(k).line,
                               <<"Cross-process combinational loop between '",
                                 proc1(k).label, "' and '", proc2(k).label,
                                 "' via signals '", a, "' and '", b, "'">>))

\* combinational::cross_process_loop: the findings come out in the order in
\* which `for ((a, b), procs_ab) in &pair_map` yields the keys. Keys with
\* a >= b or without the reverse key push nothing, so only the order of the
\* others shows.
cross_process_loop(input) ==
    LET procs == process_infos(input)
        keys == pair_map_keys(procs)
        pushing == {key \in keys : /\ StrLess(key[1], key[2])
                                    /\ <<key[2], key[1]>> \in keys}
    IN {Flatten([i \in 1..Len(order) |->
                    cross_process_findings(pair_map_entry(procs, order[i][1], order[i][2]),
                                           pair_map_entry(procs, order[i][2], order[i][1]),
                                           order[i][1], order[i][2])]) :
           order \in Orders(pushing)}

\* str::find: the position (from 1) of the first occurrence of pat, 0 for None.
str_find(s, pat) ==
    IF contains(s, pat)
    THEN 1 + CHOOSE i \in 0..(Len(s) - Len(pat)) :
                 /\ SubSeq(s, i + 1, i + Len(pat)) = pat
                 /\ \A j \in 0..(i - 1) : SubSeq(s, j + 1, j + Len(pat)) # pat
    ELSE 0

\* str::rfind: the position of the last occurrence of the character c, 0 for None.
str_rfind(s, c) ==
    IF \E i \in 1..Len(s) : s[i] = c
    THEN CHOOSE i \in 1..Len(s) : s[i] = c /\ \A j \in (i + 1)..Len(s) : s[j] # c
    ELSE 0

\* str::trim
trim(s) ==
    IF trim_is_empty(s) THEN <<>>
    ELSE SubSeq(s, CHOOSE i \in 1..Len(s) : s[i] # " " /\ \A j \in 1..(i - 1) : s[j] = " ",
                   CHOOSE i \in 1..Len(s) : s[i] # " " /\ \A j \in (i + 1)..Len(s) : s[j] = " ")

\* The decimal digits.
Digits == <<"0", "1", "2", "3", "4", "5", "6", "7", "8", "9">>

\* str::parse::<isize>(): an optional sign, then one or more digits.
parse_isize(s) ==
    LET signed == s # <<>> /\ Head(s) \in {"+", "-"}
        digits == IF signed THEN Tail(s) ELSE s
        digit(c) == (CHOOSE i \in 1..10 : Digits[i] = c) - 1
        RECURSIVE value(_)
        value(d) == IF d = <<>> THEN 0
                    ELSE 10 * value(SubSeq(d, 1, Len(d) - 1)) + digit(d[Len(d)])
    IN IF digits # <<>> /\ \A i \in 1..Len(digits) : \E k \in 1..10 : Digits[k] = digits[i]
       THEN [ok |-> TRUE,
             value |-> IF signed /\ Head(s) = "-" THEN 0 - value(digits) ELSE value(digits)]
       ELSE [ok |-> FALSE, value |-> 0]

\* hierarchy::target_matches_entity
target_matches_entity(target, entity_name) ==
    target = entity_name \/ ends_with(target, <<".">> \o entity_name)

\* hierarchy::association_actual
association_actual(assoc) ==
    IF assoc.actual # <<>>
    THEN IF /\ assoc.actual_full # <<>>
            /\ contains(assoc.actual_full, <<"(">>)
            /\ ~contains(assoc.actual, <<"(">>)
         THEN assoc.actual_full
         ELSE assoc.actual
    ELSE IF assoc.actual_full # <<>> THEN assoc.actual_full
    ELSE assoc.actual_base

\* hierarchy::get_port_connection; port_map is a function from port names to
\* actuals (it holds at most one key per port name, whatever the case).
get_port_connection(inst, entity, port_name) ==
    LET named == {i \in 1..Len(inst.associations) :
                    /\ inst.associations[i].kind = "port"
                    /\ ~inst.associations[i].is_positional
                    /\ eq_ignore_ascii_case(inst.associations[i].formal, port_name)}
        pos == {p \in 1..Len(entity.ports) :
                    /\ eq_ignore_ascii_case(entity.ports[p].name, port_name)
                    /\ \A q \in 1..(p - 1) :
                          ~eq_ignore_ascii_case(entity.ports[q].name, port_name)}
        positional == {i \in 1..Len(inst.associations) :
                          /\ inst.associations[i].kind = "port"
                          /\ inst.associations[i].is_positional
                          /\ \E p \in pos : inst.associations[i].position_index = p - 1}
        keys == {k \in DOMAIN inst.port_map : eq_ignore_ascii_case(k, port_name)}
        least(S) == CHOOSE i \in S : \A j \in S : i <= j
    IN IF named # {} THEN association_actual(inst.associations[least(named)])
       ELSE IF positional # {} THEN association_actual(inst.associations[least(positional)])
       ELSE IF port_name \in DOMAIN inst.port_map THEN inst.port_map[port_name]
       ELSE IF keys # {} THEN inst.port_map[CHOOSE k \in keys : TRUE]
       ELSE <<>>

\* hierarchy::is_literal_or_expr
is_literal_or_expr(s) ==
    \/ s # <<>> /\ \E k \in 1..10 : Digits[k] = s[1]
    \/ contains(s, <<"+">>)
    \/ contains(s, <<"-">>)
    \/ contains(s, <<"*">>)
    \/ contains(s, <<"&">>)
    \/ Len(s) >= 2 /\ s[1] \in {"x", "X", "b", "B", "o", "O"} /\ s[2] = "\""
    \/ Len(s) = 3 /\ s[1] = "'" /\ s[3] = "'"
    \/ contains(to_ascii_lowercase(s), <<"o", "t", "h", "e", "r", "s">>)

\* hierarchy::base_name
base_name(actual) ==
    LET stops == {i \in 1..Len(actual) : actual[i] \in {"(", ".", "'", " "}}
    IN trim(IF stops = {} THEN actual
            ELSE SubSeq(actual, 1, (CHOOSE i \in stops : \A j \in stops : i <= j) - 1))

\* hierarchy::arch_entity_name: Option<String>
arch_entity_name(input, arch_name) ==
    LET found == {i \in 1..Len(input.architectures) :
                    eq_ignore_ascii_case(input.architectures[i].name, arch_name)}
    IN IF found = {} THEN [some |-> FALSE, name |-> <<>>]
       ELSE [some |-> TRUE,
             name |-> input.architectures[CHOOSE i \in found :
                                             \A j \in found : i <= j].entity_name]

\* hierarchy::get_signal_width
get_signal_width(input, signal_name, scope_arch) ==
    LET entity_name == arch_entity_name(input, scope_arch)
        max(S) == IF S = {} THEN 0 ELSE CHOOSE w \in S : \A v \in S : v <= w
        scoped == {input.signals[i].width : i \in {j \in 1..Len(input.signals) :
                        /\ eq_ignore_ascii_case(input.signals[j].in_entity, scope_arch)
                        /\ eq_ignore_ascii_case(input.signals[j].name, signal_name)}}
                  \cup {input.ports[i].width : i \in {j \in 1..Len(input.ports) :
                        /\ entity_name.some
                        /\ eq_ignore_ascii_case(input.ports[j].in_entity, entity_name.name)
                        /\ eq_ignore_ascii_case(input.ports[j].name, signal_name)}}
        global == {input.signals[i].width : i \in {j \in 1..Len(input.signals) :
                        eq_ignore_ascii_case(input.signals[j].name, signal_name)}}
                  \cup {input.ports[i].width : i \in {j \in 1..Len(input.ports) :
                        eq_ignore_ascii_case(input.ports[j].name, signal_name)}}
    IN IF scope_arch # <<>> THEN max(scoped) ELSE max(global)

\* Variant: what stands in the parentheses is not looked at.
indexed_width_of_base(actual, base_width) == [some |-> FALSE, width |-> 0]

\* hierarchy::indexed_width: Option<usize>
indexed_width(actual, base_width) ==
    LET start == str_find(actual, <<"(">>)
        end == str_rfind(actual, ")")
        inside == trim(SubSeq(actual, start + 1, end - 1))
        lower == to_ascii_lowercase(inside)
        s_downto == <<" ", "d", "o", "w", "n", "t", "o", " ">>
        s_to == <<" ", "t", "o", " ">>
        abs(n) == IF n < 0 THEN 0 - n ELSE n
        range(idx, sep) ==
            LET a == parse_isize(trim(SubSeq(inside, 1, idx - 1)))
                b == parse_isize(trim(SubSeq(inside, idx + Len(sep), Len(inside))))
            IN IF a.ok /\ b.ok THEN [some |-> TRUE, width |-> abs(a.value - b.value) + 1]
               ELSE [some |-> FALSE, width |-> 0]
    IN IF start = 0 \/ end = 0 \/ end <= start THEN [some |-> FALSE, width |-> 0]
       ELSE IF contains(inside, <<",">>) THEN [some |-> TRUE, width |-> 0]
       ELSE IF str_find(lower, s_downto) # 0 THEN range(str_find(lower, s_downto), s_downto)
       ELSE IF str_find(lower, s_to) # 0 THEN range(str_find(lower, s_to), s_to)
       ELSE IF base_width = 0 THEN [some |-> TRUE, width |-> 0]
       ELSE [some |-> TRUE, width |-> 1]

\* hierarchy::get_actual_width
get_actual_width(input, actual, scope_arch) ==
    IF actual = <<>> \/ eq_ignore_ascii_case(actual, <<"o", "p", "e", "n">>) THEN 0
    ELSE IF is_literal_or_expr(actual) THEN 0
    ELSE LET base == base_name(actual)
             first == get_signal_width(input, base, scope_arch)
             base_width == IF first = 0 /\ base # actual
                           THEN get_signal_width(input, actual, scope_arch)
                           ELSE first
             indexed == indexed_width(actual, base_width)
         IN IF indexed.some THEN indexed.width ELSE base_width

\* hierarchy::port_width_mismatch
port_width_mismatch(input) ==
    LET per_port(inst, entity, port) ==
            LET actual_signal == get_port_connection(inst, entity, port.name)
                signal_width == get_actual_width(input, actual_signal, inst.in_arch)
            IN IF \/ port.width = 0
                  \/ actual_signal = <<>>
                  \/ eq_ignore_ascii_case(actual_signal, <<"o", "p", "e", "n">>)
                  \/ signal_width = 0
                  \/ signal_width = port.width
               THEN <<>>
               ELSE <<ViolationKey("port_width_mismatch", "error", inst.file, inst.line,
                                   <<"Width mismatch: signal '", actual_signal, "' (",
                                     signal_width, " bits) connected to port '",
                                     port.name, "' (", port.width,
                                     " bits) in instance '", inst.name, "'">>)>>
        per_entity(inst, entity) ==
            IF target_matches_entity(to_ascii_lowercase(inst.target),
                                     to_ascii_lowercase(entity.name))
            THEN Flatten([p \in 1..Len(entity.ports) |->
                             per_port(inst, entity, entity.ports[p])])
            ELSE <<>>
    IN Flatten([i \in 1..Len(input.instances) |->
                   Flatten([e \in 1..Len(input.entities) |->
                               per_entity(input.instances[i], input.entities[e])])])

\* hierarchy::violations, for the rule port_width_mismatch
hierarchy_violations(input) == port_width_mismatch(input)

\* ------------------------------------------------- verification planner
\* helpers::base_type_name
base_type_name(t) ==
    LET before(s, c) == IF str_find(s, <<c>>) = 0 THEN s
                        ELSE SubSeq(s, 1, str_find(s, <<c>>) - 1)
        no_params == before(before(to_ascii_lowercase(trim(t)), " "), "(")
        dots == {i \in 1..Len(no_params) : no_params[i] = "."}
    IN IF dots = {} THEN no_params
       ELSE SubSeq(no_params, (CHOOSE i \in dots : \A j \in dots : j <= i) + 1,
                   Len(no_params))

\* helpers::is_single_bit_type
is_single_bit_type(t) == as_str(to_ascii_lowercase(t)) \in {"std_logic", "std_ulogic", "bit"}

\* verification::registry_by_id over the entries load_registry returns, which
\* the Input of the model carries as check_registry: ids and scope types are
\* lower-cased, a later entry replaces an earlier one of the same id.
registry_by_id(input) ==
    LET entries == input.check_registry
        ids == {to_ascii_lowercase(entries[i].id) : i \in 1..Len(entries)}
        last(id) == CHOOSE i \in 1..Len(entries) :
                        /\ to_ascii_lowercase(entries[i].id) = id
                        /\ \A j \in (i + 1)..Len(entries) :
                              to_ascii_lowercase(entries[j].id) # id
    IN [id \in ids |-> [entries[last(id)] EXCEPT
                           !.id = id,
                           !.scope_type = to_ascii_lowercase(entries[last(id)].scope_type)]]

\* verification::signal_in_list
signal_in_list(signal, list) ==
    \E i \in 1..Len(list) : eq_ignore_ascii_case(list[i], signal)

\* verification::is_simple_identifier
is_simple_identifier(expr) ==
    /\ expr # <<>>
    /\ \A i \in 1..Len(expr) :
          \/ expr[i] = "_"
          \/ \E k \in 1..26 : expr[i] = UpperChars[k] \/ expr[i] = LowerChars[k]
          \/ \E k \in 1..10 : expr[i] = Digits[k]

\* verification::enum_type_names
enum_type_names(input) ==
    LET declared == {to_ascii_lowercase(input.types[i].name) :
                        i \in {j \in 1..Len(input.types) :
                                  eq_ignore_ascii_case(input.types[j].kind,
                                                       <<"e", "n", "u", "m">>)}}
        RECURSIVE with_subtypes(_, _)
        with_subtypes(names, k) ==
            IF k > Len(input.subtypes) THEN names
            ELSE IF base_type_name(input.subtypes[k].base_type) \in names
            THEN with_subtypes(names \cup {to_ascii_lowercase(input.subtypes[k].name)}, k + 1)
            ELSE with_subtypes(names, k + 1)
    IN with_subtypes(declared, 1)

\* verification::signal_is_enum
signal_is_enum(input, signal, enum_types) ==
    LET found == {i \in 1..Len(input.signals) :
                    eq_ignore_ascii_case(input.signals[i].name, signal)}
    IN /\ found # {}
       /\ base_type_name(input.signals[CHOOSE i \in found : \A j \in found : i <= j].type)
              \in enum_types

\* verification::process_candidates
process_candidates(input, case_stmt) ==
    FilterSeq(input.processes,
              LAMBDA proc :
                  /\ eq_ignore_ascii_case(proc.in_arch, case_stmt.in_arch)
                  /\ \/ case_stmt.in_process = <<>>
                     \/ eq_ignore_ascii_case(proc.label, case_stmt.in_process))

\* verification::is_fsm_case
is_fsm_case(input, case_stmt, enum_types) ==
    LET expr == trim(case_stmt.expression)
        candidates == process_candidates(input, case_stmt)
    IN /\ is_simple_identifier(expr)
       /\ signal_is_enum(input, expr, enum_types)
       /\ \E i \in 1..Len(candidates) :
             /\ candidates[i].is_sequential
             /\ signal_in_list(expr, candidates[i].assigned_signals)
             /\ signal_in_list(expr, candidates[i].read_signals)

\* verification::detect_fsm_constructs
detect_fsm_constructs(input) ==
    MapSeq(FilterSeq(input.case_statements,
                     LAMBDA cs : is_fsm_case(input, cs, enum_type_names(input))),
           LAMBDA cs : [kind |-> "fsm", in_arch |-> cs.in_arch, file |-> cs.file,
                        line |-> cs.line,
                        bindings |-> [k \in {<<"s", "t", "a", "t", "e">>} |->
                                         trim(cs.expression)]])

\* verification::signal_is_numeric
signal_is_numeric(input, signal) ==
    LET found == {i \in 1..Len(input.signals) :
                    eq_ignore_ascii_case(input.signals[i].name, signal)}
        type == input.signals[CHOOSE i \in found : \A j \in found : i <= j].type
    IN /\ found # {}
       \* is_unsigned_type or is_signed_type: the lower-cased type contains
       \* "unsigned", or "signed" and not "unsigned".
       /\ \/ as_str(base_type_name(type)) \in {"integer", "natural", "positive"}
          \/ contains(to_ascii_lowercase(type), <<"s", "i", "g", "n", "e", "d">>)

\* verification::detect_counter_constructs
detect_counter_constructs(input) ==
    Flatten([p \in 1..Len(input.processes) |->
        LET process == input.processes[p] IN
        IF ~process.is_sequential THEN <<>>
        ELSE MapSeq(FilterSeq(process.assigned_signals,
                              LAMBDA sig : /\ signal_in_list(sig, process.read_signals)
                                           /\ signal_is_numeric(input, sig)),
                    LAMBDA sig : [kind |-> "counter", in_arch |-> process.in_arch,
                                  file |-> process.file, line |-> process.line,
                                  bindings |-> [k \in {<<"c", "o", "u", "n", "t", "e", "r">>}
                                                   |-> sig]])])

\* verification::port_info_map: by lower-cased port name, the last port of the
\* name decides.
port_info_map(input) ==
    LET names == {to_ascii_lowercase(input.ports[i].name) : i \in 1..Len(input.ports)}
        last(n) == CHOOSE i \in 1..Len(input.ports) :
                       /\ to_ascii_lowercase(input.ports[i].name) = n
                       /\ \A j \in (i + 1)..Len(input.ports) :
                             to_ascii_lowercase(input.ports[j].name) # n
    IN [n \in names |->
           [direction |-> as_str(to_ascii_lowercase(input.ports[last(n)].direction)),
            single_bit |-> is_single_bit_type(input.ports[last(n)].type)]]

\* The body of the loop of verification::detect_ready_valid_constructs for one
\* concurrent assignment with two read signals, given port_info_map.
ready_valid_of_assignment(port_map, ca) ==
    LET a == ca.read_signals[1]
        b == ca.read_signals[2]
        la == to_ascii_lowercase(a)
        lb == to_ascii_lowercase(b)
        construct(valid, ready) ==
            [kind |-> "ready_valid", in_arch |-> ca.in_arch, file |-> ca.file,
             line |-> ca.line,
             bindings |-> (<<"v", "a", "l", "i", "d">> :> valid)
                          @@ (<<"r", "e", "a", "d", "y">> :> ready)]
    IN IF la \notin DOMAIN port_map \/ lb \notin DOMAIN port_map
       THEN [constructs |-> <<>>, ambiguous |-> <<>>]
       ELSE IF ~port_map[la].single_bit \/ ~port_map[lb].single_bit
       THEN [constructs |-> <<>>, ambiguous |-> <<>>]
       ELSE IF <<port_map[la].direction, port_map[lb].direction>>
                  \in {<<"out", "in">>, <<"buffer", "in">>}
       THEN [constructs |-> <<construct(a, b)>>, ambiguous |-> <<>>]
       ELSE IF <<port_map[la].direction, port_map[lb].direction>>
                  \in {<<"in", "out">>, <<"in", "buffer">>}
       THEN [constructs |-> <<construct(b, a)>>, ambiguous |-> <<>>]
       ELSE [constructs |-> <<>>,
             ambiguous |-> <<[kind |-> "ready_valid",
                              scope |-> <<"a", "r", "c", "h", ":">>
                                           \o to_ascii_lowercase(ca.in_arch),
                              file |-> ca.file, line |-> ca.line,
                              candidates |-> (<<"v", "a", "l", "i", "d">> :> <<a, b>>)
                                             @@ (<<"r", "e", "a", "d", "y">> :> <<a, b>>)]>>]

\* verification::detect_ready_valid_constructs
detect_ready_valid_constructs(input) ==
    Bind(port_info_map(input), LAMBDA port_map :
    Bind(MapSeq(FilterSeq(input.concurrent_assignments,
                          LAMBDA ca : Len(ca.read_signals) = 2),
                LAMBDA ca : ready_valid_of_assignment(port_map, ca)),
         LAMBDA found :
             [constructs |-> Flatten([i \in 1..Len(found) |-> found[i].constructs]),
              ambiguous |-> Flatten([i \in 1..Len(found) |-> found[i].ambiguous])]))

\* verification::format_bindings: the pairs key=value by ascending key, joined
\* by a comma and a space.
format_bindings(bindings) ==
    LET RECURSIVE render(_)
        render(keys) ==
            IF keys = {} THEN <<>>
            ELSE LET k == CHOOSE x \in keys : \A y \in keys : x = y \/ StrLess(x, y)
                 IN k \o <<"=">> \o bindings[k]
                      \o (IF keys = {k} THEN <<>> ELSE <<",", " ">> \o render(keys \ {k}))
    IN render(DOMAIN bindings)

\* verification::detect_constructs. No signal of the Inputs of the model has an
\* array type, so detect_fifo_constructs, which visits the memories of
\* array_signals_by_arch, contributes nothing.
detect_constructs(input) ==
    Bind(detect_ready_valid_constructs(input), LAMBDA ready_valid :
    Bind(detect_fsm_constructs(input) \o detect_counter_constructs(input)
             \o ready_valid.constructs,
         LAMBDA all_constructs :
             LET key(c) == <<c.kind, to_ascii_lowercase(c.in_arch),
                             format_bindings(c.bindings)>>
                 RECURSIVE retain(_)
                 retain(k) ==
                     IF k > Len(all_constructs) THEN <<>>
                     ELSE (IF \E j \in 1..(k - 1) :
                                 key(all_constructs[j]) = key(all_constructs[k])
                           THEN <<>>
                           ELSE <<all_constructs[k]>>)
                          \o retain(k + 1)
             IN [constructs |-> retain(1), ambiguous |-> ready_valid.ambiguous]))

\* verification::required_checks_for_construct
required_checks_for_construct(kind) ==
    CASE kind = "fsm" ->
            << <<"f", "s", "m", ".", "l", "e", "g", "a", "l", "_", "s", "t", "a", "t", "e">>,
               <<"f", "s", "m", ".", "r", "e", "s", "e", "t", "_", "k", "n", "o", "w", "n">>,
               <<"c", "o", "v", "e", "r", ".", "f", "s", "m", ".", "t", "r", "a", "n", "s",
                 "i", "t", "i", "o", "n", "_", "t", "a", "k", "e", "n">> >>
      [] kind = "ready_valid" ->
            << <<"r", "v", ".", "s", "t", "a", "b", "l", "e", "_", "w", "h", "i", "l", "e",
                 "_", "s", "t", "a", "l", "l", "e", "d">>,
               <<"c", "o", "v", "e", "r", ".", "r", "v", ".", "h", "a", "n", "d", "s", "h",
                 "a", "k", "e">> >>
      [] kind = "fifo" ->
            << <<"f", "i", "f", "o", ".", "n", "o", "_", "r", "e", "a", "d", "_", "e", "m",
                 "p", "t", "y">>,
               <<"f", "i", "f", "o", ".", "n", "o", "_", "w", "r", "i", "t", "e", "_", "f",
                 "u", "l", "l">>,
               <<"c", "o", "v", "e", "r", ".", "f", "i", "f", "o", ".", "a", "c", "t", "i",
                 "v", "i", "t", "y">> >>
      [] kind = "counter" ->
            << <<"c", "t", "r", ".", "r", "a", "n", "g", "e">>,
               <<"c", "t", "r", ".", "s", "t", "e", "p", "_", "r", "u", "l", "e">>,
               <<"c", "o", "v", "e", "r", ".", "c", "t", "r", ".", "m", "o", "v", "e", "d">> >>

\* verification::normalize_severity
normalize_severity(sev) == IF sev \in {"error", "warning", "info"} THEN sev ELSE "warning"

\* verification::scope_matches
scope_matches(scope_type, scope) ==
    \/ scope_type = <<>>
    \/ eq_ignore_ascii_case(
           trim(IF str_find(scope, <<":">>) = 0 THEN scope
                ELSE SubSeq(scope, 1, str_find(scope, <<":">>) - 1)),
           scope_type)

\* verification::missing_required_bindings
missing_required_bindings(entry, tag) ==
    FilterSeq(entry.required_bindings,
              LAMBDA binding : \/ binding \notin DOMAIN tag.bindings
                               \/ trim_is_empty(tag.bindings[binding]))

\* Variant: the bindings of a tag are not looked at.
tag_is_valid_whatever_bindings(tag, registry) ==
    /\ to_ascii_lowercase(tag.id) \in DOMAIN registry
    /\ scope_matches(registry[to_ascii_lowercase(tag.id)].scope_type, tag.scope)

\* verification::tag_is_valid
tag_is_valid(tag, registry) ==
    /\ to_ascii_lowercase(tag.id) \in DOMAIN registry
    /\ LET entry == registry[to_ascii_lowercase(tag.id)] IN
       /\ scope_matches(entry.scope_type, tag.scope)
       /\ missing_required_bindings(entry, tag) = <<>>
       /\ ~(/\ entry.requires_bound
            /\ \/ <<"b", "o", "u", "n", "d">> \notin DOMAIN tag.bindings
               \/ trim_is_empty(tag.bindings[<<"b", "o", "u", "n", "d">>]))

\* verification::parse_scope: Option<(String, String)>
parse_scope(scope) ==
    Bind(str_find(scope, <<":">>), LAMBDA colon :
    Bind(<<to_ascii_lowercase(trim(SubSeq(scope, 1, colon - 1))),
           to_ascii_lowercase(trim(SubSeq(scope, colon + 1, Len(scope))))>>,
         LAMBDA parts :
             IF colon = 0 \/ parts[1] = <<>> \/ parts[2] = <<>>
             THEN [some |-> FALSE, scope_type |-> <<>>, scope_name |-> <<>>]
             ELSE [some |-> TRUE, scope_type |-> parts[1], scope_name |-> parts[2]]))

\* verification::tag_scope_key: Option<String>; arch_entity_map keeps the last
\* architecture of a name.
tag_scope_key(input, tag) ==
    Bind(parse_scope(tag.scope), LAMBDA parsed :
    Bind({i \in 1..Len(input.architectures) :
             to_ascii_lowercase(input.architectures[i].name)
                 = to_ascii_lowercase(tag.in_arch)},
         LAMBDA archs :
             IF /\ parsed.some
                /\ as_str(parsed.scope_type) = "arch"
                /\ eq_ignore_ascii_case(tag.in_arch, parsed.scope_name)
             THEN [some |-> TRUE, key |-> <<"a", "r", "c", "h", ":">> \o parsed.scope_name]
             ELSE IF /\ parsed.some
                     /\ as_str(parsed.scope_type) = "entity"
                     /\ archs # {}
                     /\ eq_ignore_ascii_case(
                            to_ascii_lowercase(
                                input.architectures[CHOOSE i \in archs :
                                                       \A j \in archs : j <= i].entity_name),
                            parsed.scope_name)
             THEN [some |-> TRUE,
                   key |-> <<"e", "n", "t", "i", "t", "y", ":">> \o parsed.scope_name]
             ELSE [some |-> FALSE, key |-> <<>>]))

\* verification::tags_by_scope: by scope key, the valid tags in their order.
tags_by_scope(input, registry) ==
    Bind(MapSeq(FilterSeq(input.verification_tags,
                          LAMBDA tag : tag_is_valid(tag, registry)),
                LAMBDA tag : [tag |-> tag, scope |-> tag_scope_key(input, tag)]),
         LAMBDA keyed :
             [scope_key \in {keyed[i].scope.key :
                                i \in {j \in 1..Len(keyed) : keyed[j].scope.some}} |->
                 MapSeq(FilterSeq(keyed, LAMBDA kt : /\ kt.scope.some
                                                     /\ kt.scope.key = scope_key),
                        LAMBDA kt : kt.tag)])

\* verification::cover_prefix_for: Option<String>
cover_prefix_for(id) ==
    LET lower == to_ascii_lowercase(id)
        dot == str_find(lower, <<".">>)
        family == IF dot = 0 THEN lower ELSE SubSeq(lower, 1, dot - 1)
    IN IF starts_with(lower, <<"c", "o", "v", "e", "r", ".">>)
       THEN [some |-> FALSE, prefix |-> <<>>]
       ELSE [some |-> TRUE,
             prefix |-> <<"c", "o", "v", "e", "r", ".">> \o family \o <<".">>]

\* verification::invalid_tag_violations
invalid_tag_violations(input, registry) ==
    MapSeq(input.verification_tag_errors,
           LAMBDA err : ViolationKey("invalid_verification_tag", "error", err.file, err.line,
                                     <<"Malformed verification tag: ", err.message>>))
    \o Flatten([t \in 1..Len(input.verification_tags) |->
          LET tag == input.verification_tags[t]
              id == to_ascii_lowercase(tag.id)
          IN IF id \notin DOMAIN registry
             THEN <<ViolationKey("invalid_verification_tag", "error", tag.file, tag.line,
                                 <<"Unknown verification check id '", tag.id, "'">>)>>
             ELSE (IF scope_matches(registry[id].scope_type, tag.scope) THEN <<>>
                   ELSE <<ViolationKey("invalid_verification_tag", "error", tag.file,
                                       tag.line,
                                       <<"Verification tag '", tag.id, "' has scope '",
                                         tag.scope, "' but registry expects '",
                                         registry[id].scope_type, ":*'">>)>>)
                  \o (IF missing_required_bindings(registry[id], tag) = <<>> THEN <<>>
                      ELSE <<ViolationKey("invalid_verification_tag", "error", tag.file,
                                          tag.line,
                                          <<"Verification tag '", tag.id,
                                            "' missing required bindings: ",
                                            missing_required_bindings(registry[id], tag)>>)>>)])

\* verification::missing_liveness_bound
missing_liveness_bound(input, registry) ==
    MapSeq(FilterSeq(input.verification_tags,
                     LAMBDA tag :
                         /\ to_ascii_lowercase(tag.id) \in DOMAIN registry
                         /\ registry[to_ascii_lowercase(tag.id)].requires_bound
                         /\ \/ <<"b", "o", "u", "n", "d">> \notin DOMAIN tag.bindings
                            \/ trim_is_empty(tag.bindings[<<"b", "o", "u", "n", "d">>])),
           LAMBDA tag : ViolationKey("missing_liveness_bound", "error", tag.file, tag.line,
                                     <<"Verification tag '", tag.id,
                                       "' requires an explicit bound (add bound=)">>))

\* verification::missing_cover_companion
missing_cover_companion(input, registry, by_scope) ==
    Flatten([t \in 1..Len(input.verification_tags) |->
        Bind(input.verification_tags[t], LAMBDA tag :
        Bind(tag_scope_key(input, tag), LAMBDA scope :
        Bind(cover_prefix_for(tag.id), LAMBDA prefix :
            IF /\ to_ascii_lowercase(tag.id) \in DOMAIN registry
               /\ registry[to_ascii_lowercase(tag.id)].needs_cover
               /\ tag_is_valid(tag, registry)
               /\ scope.some
               /\ prefix.some
               /\ ~(/\ scope.key \in DOMAIN by_scope
                    /\ \E o \in 1..Len(by_scope[scope.key]) :
                          /\ starts_with(to_ascii_lowercase(by_scope[scope.key][o].id),
                                         prefix.prefix)
                          /\ tag_is_valid(by_scope[scope.key][o], registry))
            THEN <<ViolationKey("missing_cover_companion", "warning", tag.file, tag.line,
                                <<"Verification tag '", tag.id,
                                  "' requires a cover companion in ", scope.key>>)>>
            ELSE <<>>)))])

\* verification::missing_verification_block
missing_verification_block(input, constructs) ==
    MapSeq(FilterSeq(input.architectures,
                     LAMBDA arch :
                         /\ \E c \in 1..Len(constructs) :
                               to_ascii_lowercase(constructs[c].in_arch)
                                   = to_ascii_lowercase(arch.name)
                         /\ \A b \in 1..Len(input.verification_blocks) :
                               to_ascii_lowercase(input.verification_blocks[b].in_arch)
                                   # to_ascii_lowercase(arch.name)),
           LAMBDA arch : ViolationKey("missing_verification_block", "warning", arch.file,
                                      arch.line,
                                      <<"Architecture '", arch.name,
                                        "' has detectable constructs but no verification block">>))

\* verification::anchor_for_arch
anchor_for_arch(input, arch) ==
    LET blocks == {i \in 1..Len(input.verification_blocks) :
                      eq_ignore_ascii_case(input.verification_blocks[i].in_arch, arch)}
        archs == {i \in 1..Len(input.architectures) :
                     eq_ignore_ascii_case(input.architectures[i].name, arch)}
        block == input.verification_blocks[CHOOSE i \in blocks : \A j \in blocks : i <= j]
        found == input.architectures[CHOOSE i \in archs : \A j \in archs : i <= j]
    IN IF blocks # {}
       THEN [label |-> block.label, line_start |-> block.line_start,
             line_end |-> block.line_end, exists |-> TRUE]
       ELSE IF archs # {}
       THEN [label |-> <<"a", "r", "c", "h", "i", "t", "e", "c", "t", "u", "r", "e">>,
             line_start |-> found.line, line_end |-> found.line, exists |-> FALSE]
       ELSE [label |-> <<"u", "n", "k", "n", "o", "w", "n">>,
             line_start |-> 1, line_end |-> 1, exists |-> FALSE]

\* The lower-cased ids of the valid tags of the scope of a construct, as
\* missing_check_violations and missing_check_tasks collect them in tag_ids.
tag_ids_of_scope(construct, by_scope, registry) ==
    LET scope_key == <<"a", "r", "c", "h", ":">> \o to_ascii_lowercase(construct.in_arch)
    IN IF scope_key \notin DOMAIN by_scope THEN {}
       ELSE {to_ascii_lowercase(by_scope[scope_key][i].id) :
                i \in {j \in 1..Len(by_scope[scope_key]) :
                          tag_is_valid(by_scope[scope_key][j], registry)}}

\* verification::missing_check_violations, with missing_check_details
missing_check_violations(input, constructs, by_scope, registry) ==
    Bind(Flatten([c \in 1..Len(constructs) |->
             MapSeq(FilterSeq(required_checks_for_construct(constructs[c].kind),
                              LAMBDA check_id :
                                  to_ascii_lowercase(check_id)
                                      \notin tag_ids_of_scope(constructs[c], by_scope,
                                                              registry)),
                    LAMBDA check_id :
                        [construct |-> constructs[c], check_id |-> check_id,
                         scope_key |-> <<"a", "r", "c", "h", ":">>
                                          \o to_ascii_lowercase(constructs[c].in_arch)])]),
         LAMBDA wanted :
             LET severity(check_id) ==
                     IF to_ascii_lowercase(check_id) \in DOMAIN registry
                     THEN normalize_severity(registry[to_ascii_lowercase(check_id)].severity)
                     ELSE "warning"
                 finding(w) ==
                     ViolationKey("missing_verification_check", severity(w.check_id),
                                  w.construct.file, w.construct.line,
                                  <<"Missing verification check '", w.check_id, "' for ",
                                    w.construct.kind, " in ", w.scope_key, " (anchor line ",
                                    anchor_for_arch(input, w.construct.in_arch).line_start,
                                    ", bindings: ", format_bindings(w.construct.bindings),
                                    ")">>)
                 RECURSIVE emit(_)
                 emit(k) ==
                     IF k > Len(wanted) THEN <<>>
                     ELSE (IF \E j \in 1..(k - 1) :
                                 /\ wanted[j].scope_key = wanted[k].scope_key
                                 /\ to_ascii_lowercase(wanted[j].check_id)
                                        = to_ascii_lowercase(wanted[k].check_id)
                           THEN <<>>
                           ELSE <<finding(wanted[k])>>)
                          \o emit(k + 1)
             IN emit(1))

\* verification::notes_for_missing_checks
notes_for_missing_checks(registry, checks) ==
    Flatten([c \in 1..Len(checks) |->
        LET id == to_ascii_lowercase(checks[c]) IN
        IF id \notin DOMAIN registry THEN <<>>
        ELSE (IF registry[id].needs_cover
              THEN <<checks[c] \o <<" ", "n", "e", "e", "d", "s", " ", "c", "o", "v", "e", "r">>>>
              ELSE <<>>)
             \o (IF registry[id].requires_bound
                 THEN <<checks[c] \o <<" ", "r", "e", "q", "u", "i", "r", "e", "s", " ",
                                       "b", "o", "u", "n", "d">>>>
                 ELSE <<>>)])

\* verification::missing_check_tasks
missing_check_tasks(input, constructs, by_scope, registry) ==
    Bind([c \in 1..Len(constructs) |->
             [missing_ids |->
                  FilterSeq(required_checks_for_construct(constructs[c].kind),
                            LAMBDA check_id :
                                to_ascii_lowercase(check_id)
                                    \notin tag_ids_of_scope(constructs[c], by_scope,
                                                            registry)),
              scope |-> <<"a", "r", "c", "h", ":">>
                           \o to_ascii_lowercase(constructs[c].in_arch),
              key |-> <<to_ascii_lowercase(constructs[c].in_arch), constructs[c].kind,
                        format_bindings(constructs[c].bindings)>>]],
         LAMBDA per :
             LET RECURSIVE tasks(_)
                 tasks(k) ==
                     IF k > Len(constructs) THEN <<>>
                     ELSE (IF \/ per[k].missing_ids = <<>>
                              \/ \E j \in 1..(k - 1) : /\ per[j].missing_ids # <<>>
                                                       /\ per[j].key = per[k].key
                           THEN <<>>
                           ELSE <<[file |-> constructs[k].file,
                                   scope |-> per[k].scope,
                                   anchor |-> anchor_for_arch(input, constructs[k].in_arch),
                                   missing_ids |-> per[k].missing_ids,
                                   bindings |-> constructs[k].bindings,
                                   notes |-> notes_for_missing_checks(registry,
                                                                      per[k].missing_ids)]>>)
                          \o tasks(k + 1)
             IN tasks(1))

\* verification::ambiguous_construct_warnings
ambiguous_construct_warnings(ambiguous) ==
    MapSeq(ambiguous,
           LAMBDA amb : ViolationKey("ambiguous_construct", "warning", amb.file, amb.line,
                                     <<"Ambiguous ", amb.kind, " construct in ", amb.scope,
                                       " (candidates: ", amb.candidates, ")">>))

\* verification::analyze
analyze(input) ==
    Bind(registry_by_id(input), LAMBDA registry :
    Bind(tags_by_scope(input, registry), LAMBDA by_scope :
    Bind(detect_constructs(input), LAMBDA detection :
        [violations |->
             invalid_tag_violations(input, registry)
                 \o missing_liveness_bound(input, registry)
                 \o missing_cover_companion(input, registry, by_scope)
                 \o missing_verification_block(input, detection.constructs)
                 \o missing_check_violations(input, detection.constructs, by_scope,
                                             registry)
                 \o ambiguous_construct_warnings(detection.ambiguous),
         missing_checks |->
             missing_check_tasks(input, detection.constructs, by_scope, registry),
         ambiguous_constructs |-> detection.ambiguous])))

\* latch::incomplete_case_latch
incomplete_case_latch(input) ==
    MapSeq(FilterSeq(input.case_statements,
                     LAMBDA cs :
                         /\ ~cs.has_others
                         /\ \/ cs.in_process = <<>>
                            \/ \E p \in 1..Len(input.processes) :
                                  /\ input.processes[p].file = cs.file
                                  /\ input.processes[p].label = cs.in_process
                                  /\ input.processes[p].is_combinational),
           LAMBDA cs : ViolationKey("incomplete_case_latch", "warning", cs.file, cs.line,
                                    IF cs.in_process = <<>>
                                    THEN <<"Case statement on '", cs.expression,
                                           "' missing 'when others =>' - may infer latch">>
                                    ELSE <<"Case statement on '", cs.expression,
                                           "' in combinational process '", cs.in_process,
                                           "' missing 'when others =>' - will infer latch">>))

\* latch::enum_case_incomplete
enum_case_incomplete(input) ==
    LET sigs(cs) == {i \in 1..Len(input.signals) :
                        eq_ignore_ascii_case(input.signals[i].name, cs.expression)}
        sig(cs) == input.signals[CHOOSE i \in sigs(cs) : \A j \in sigs(cs) : i <= j]
        enums(cs) == {i \in 1..Len(input.types) :
                         /\ as_str(input.types[i].kind) = "enum"
                         /\ eq_ignore_ascii_case(input.types[i].name, sig(cs).type)}
        enum_type(cs) == input.types[CHOOSE i \in enums(cs) : \A j \in enums(cs) : i <= j]
        missing(cs) == FilterSeq(enum_type(cs).enum_literals,
                                 LAMBDA lit : \A c \in 1..Len(cs.choices) :
                                     ~eq_ignore_ascii_case(to_ascii_lowercase(cs.choices[c]),
                                                           lit))
    IN MapSeq(FilterSeq(input.case_statements,
                        LAMBDA cs :
                            /\ ~cs.has_others
                            /\ sigs(cs) # {}
                            /\ enums(cs) # {}
                            /\ missing(cs) # <<>>
                            /\ \E p \in 1..Len(input.processes) :
                                  /\ input.processes[p].file = cs.file
                                  /\ input.processes[p].label = cs.in_process
                                  /\ input.processes[p].is_combinational),
              LAMBDA cs : ViolationKey("enum_case_incomplete", "error", cs.file, cs.line,
                                       <<"Case statement on enum '", cs.expression,
                                         "' missing values ",
                                         {missing(cs)[i] : i \in 1..Len(missing(cs))},
                                         " in combinational process - will infer latch">>))

\* latch::violations
latch_violations(input) == incomplete_case_latch(input) \o enum_case_incomplete(input)

\* engine::filter_missing_checks
filter_missing_checks(input, tasks) ==
    IF rule_is_disabled(input, "missing_verification_check") THEN <<>>
    ELSE FilterSeq(tasks, LAMBDA task : ~is_third_party_file(input, task.file))

\* engine::filter_ambiguous_constructs
filter_ambiguous_constructs(input, items) ==
    IF rule_is_disabled(input, "ambiguous_construct") THEN <<>>
    ELSE FilterSeq(items, LAMBDA item : ~is_third_party_file(input, item.file))

\* rdc::reset_crosses_domains
reset_crosses_domains(input) ==
    LET procs == input.processes
        pairs == IndexPairs(Len(procs), Len(procs))
    IN MapSeq(FilterSeq(pairs,
                LAMBDA pq :
                    /\ procs[pq[1]].has_reset /\ procs[pq[1]].reset_signal # <<>>
                    /\ procs[pq[2]].has_reset
                    /\ procs[pq[2]].reset_signal = procs[pq[1]].reset_signal
                    /\ procs[pq[1]].clock_signal # <<>>
                    /\ procs[pq[2]].clock_signal # <<>>
                    /\ procs[pq[1]].clock_signal # procs[pq[2]].clock_signal
                    /\ procs[pq[1]].line < procs[pq[2]].line),
              LAMBDA pq :
                  ViolationKey("reset_crosses_domains", "error", procs[pq[1]].file,
                               procs[pq[1]].line,
                               <<"Reset '", procs[pq[1]].reset_signal,
                                 "' used in multiple clock domains ('",
                                 procs[pq[1]].clock_signal, "' and '",
                                 procs[pq[2]].clock_signal,
                                 "') - each domain needs synchronized reset">>))

\* rdc::violations
rdc_violations(input) == reset_crosses_domains(input)

\* combinational::violations, for the three loop rules: every sequence the
\* call may return.
combinational_violations(input) ==
    {direct_combinational_loop(input) \o two_stage_loop(input)
        \o three_stage_loop(input) \o cross :
        cross \in cross_process_loop(input)}

\* engine::summarize
summarize(violations) ==
    [total_violations |-> Len(violations),
     errors |-> CountSeverity(violations, "error"),
     warnings |-> CountSeverity(violations, "warning"),
     info |-> CountSeverity(violations, "info")]

\* engine::evaluate on the rules above: every Result the call may return, the
\* filtered findings in the order the rule modules were run, and their summary.
evaluate(input) ==
    Bind(analyze(input), LAMBDA analysis :
        {[summary |-> summarize(filter_violations(input, raw)),
          violations |-> filter_violations(input, raw),
          missing_checks |-> filter_missing_checks(input, analysis.missing_checks),
          ambiguous_constructs |->
              filter_ambiguous_constructs(input, analysis.ambiguous_constructs)] :
            raw \in {core_violations(input) \o analysis.violations \o comb
                        \o hierarchy_violations(input) \o latch_violations(input)
                        \o rdc_violations(input) :
                        comb \in combinational_violations(input)}})

\* Input::default()
DefaultInput ==
    [entities |-> <<>>, architectures |-> <<>>, signals |-> <<>>, ports |-> <<>>,
     dependencies |-> <<>>, files |-> <<>>, processes |-> <<>>, generates |-> <<>>,
     enum_literals |-> <<>>, constants |-> <<>>, signal_deps |-> <<>>,
     instances |-> <<>>, types |-> <<>>, subtypes |-> <<>>, case_statements |-> <<>>,
     concurrent_assignments |-> <<>>, verification_tags |-> <<>>,
     verification_tag_errors |-> <<>>, verification_blocks |-> <<>>,
     check_registry |-> <<>>,
     lint_config |-> [rules |-> << >>], third_party_files |-> <<>>]

\* The rows of a collection as a vector, each as often as its weight says.
RECURSIVE Expand(_)
Expand(c) ==
    IF \A d \in DOMAIN c : c[d] <= 0 THEN <<>>
    ELSE LET d == CHOOSE x \in DOMAIN c : c[x] > 0 IN
         <<d>> \o Expand(Concat(c, d :> (0 - 1)))

\* The Input the loader hands the batch engine for the facts the sessions
\* hold: ports nested in their entity, a dependency resolved when a symbol of
\* its target's name is present.
FactInput(sess, rules) ==
    [DefaultInput EXCEPT
     !.entities =
        MapSeq(Expand(sess.entities),
               LAMBDA e : [name |-> e[1], file |-> e[2], line |-> e[3],
                           ports |-> FilterSeq(Expand(sess.ports),
                                               LAMBDA p : p[1] = e[1])]),
     !.architectures =
        MapSeq(Expand(sess.architectures),
               LAMBDA a : [name |-> a[4], entity_name |-> a[1], file |-> a[2],
                           line |-> a[3]]),
     !.dependencies =
        MapSeq(Expand(sess.dependencies),
               LAMBDA d : [source |-> d[2], target |-> d[1], kind |-> d[4],
                           line |-> d[3],
                           resolved |-> \E n \in DOMAIN sess.symbols :
                                            sess.symbols[n] > 0 /\ n = d[1]]),
     !.lint_config = [rules |-> rules]]

\* ----------------------------------------------------------- batch binary
n_a == <<"a">>
n_A == <<"A">>
n_b == <<"b">>
n_c == <<"c">>
n_C == <<"C">>
s_vhd == <<"v", "h", "d">>
s_std_logic == <<"s", "t", "d", "_", "l", "o", "g", "i", "c">>

\* Entities of an Input: none has ports.
BatchEntities ==
    { [name |-> s_core, file |-> s_a_vhd, line |-> 1, ports |-> <<>>],
      [name |-> s_core_tb, file |-> s_a_vhd, line |-> 1, ports |-> <<>>],
      [name |-> s_Core, file |-> s_b_vhd, line |-> 2, ports |-> <<>>] }

\* lint_config.rules: any of three rule ids mapped to off, to a severity, or
\* to a string that is neither.
ConfigRules == {"entity_has_ports", "entity_without_arch", "duplicate_entity_in_library"}

ConfigValues == {"off", "error", "info", "on"}

BatchLintConfigs == UNION {[R -> ConfigValues] : R \in SUBSET ConfigRules}

\* third_party_files: nothing, one of the two files, or a suffix of both.
ThirdPartyLists == {<<>>, <<s_a_vhd>>, <<s_b_vhd>>, <<s_vhd>>}

\* Inputs of entities under a lint configuration and a third-party list.
FilterInputs ==
    {[DefaultInput EXCEPT !.entities = es, !.lint_config = [rules |-> cfg],
                          !.third_party_files = tp] :
        es \in SeqsUpTo(BatchEntities, MaxEntities), cfg \in BatchLintConfigs,
        tp \in ThirdPartyLists}

\* The lint configuration that lists the three loop rules.
LoopRules ==
    {"direct_combinational_loop", "two_stage_combinational_loop",
     "three_stage_combinational_loop", "cross_process_combinational_loop"}

LoopLintConfig == [rules |-> [r \in LoopRules |-> "error"]]

\* SignalDep records over the names a, A and b, all in a.vhd.
SignalDepChoices ==
    [source : {n_a, n_b}, target : {n_a, n_A, n_b}, is_sequential : BOOLEAN,
     file : {s_a_vhd}, line : {3}]

\* What surrounds the dependencies: nothing, a testbench entity in a.vhd, or
\* a signal a of resolved type.
LoopContexts ==
    { DefaultInput,
      [DefaultInput EXCEPT !.entities = <<[name |-> s_core_tb, file |-> s_a_vhd,
                                           line |-> 1, ports |-> <<>>]>>],
      [DefaultInput EXCEPT !.signals = <<[name |-> n_a, type |-> s_std_logic]>>] }

LoopInputs ==
    {[ctx EXCEPT !.signal_deps = deps, !.lint_config = LoopLintConfig] :
        ctx \in LoopContexts, deps \in SeqsUpTo(SignalDepChoices, MaxDeps)}

\* SignalDep records that close the cycle a -> b -> c -> a, the last edge also
\* spelled C -> a and as a sequential write, and two edges the other way.
CycleDepChoices ==
    {[source |-> e[1], target |-> e[2], is_sequential |-> e[3], file |-> s_a_vhd,
      line |-> e[4]] :
        e \in {<<n_a, n_b, FALSE, 1>>, <<n_b, n_c, FALSE, 2>>, <<n_c, n_a, FALSE, 3>>,
               <<n_C, n_a, FALSE, 4>>, <<n_c, n_a, TRUE, 5>>, <<n_b, n_a, FALSE, 6>>,
               <<n_a, n_c, FALSE, 7>>}}

CycleInputs ==
    {[ctx EXCEPT !.signal_deps = deps, !.lint_config = LoopLintConfig] :
        ctx \in {DefaultInput,
                 [DefaultInput EXCEPT !.signals = <<[name |-> n_b, type |-> s_std_logic]>>]},
        deps \in SeqsUpTo(CycleDepChoices, MaxCycleDeps)}

\* Process records: p1 or p2, assigning a and reading b and c, or the other
\* way round, or reading what it assigns.
ProcessChoices ==
    {[label |-> l, is_combinational |-> comb, is_sequential |-> FALSE,
      assigned_signals |-> sigs[1],
      read_signals |-> sigs[2], file |-> s_a_vhd, line |-> ln, in_arch |-> s_rtl,
      has_reset |-> FALSE, reset_signal |-> <<>>, clock_signal |-> <<>>] :
        l \in {"p1", "p2"}, comb \in BOOLEAN, ln \in {1, 2},
        sigs \in {<<<<n_a>>, <<n_b, n_c>>>>, <<<<n_b, n_c>>, <<n_a>>>>,
                  <<<<n_a>>, <<n_a>>>>}}

\* The architecture the processes are in: of a design entity or of a testbench.
ProcessContexts ==
    { [DefaultInput EXCEPT !.architectures =
          <<[name |-> s_rtl, entity_name |-> s_core, file |-> s_a_vhd, line |-> 1]>>],
      [DefaultInput EXCEPT !.architectures =
          <<[name |-> s_rtl, entity_name |-> s_core_tb, file |-> s_a_vhd, line |-> 1]>>] }

ProcessInputs ==
    {[ctx EXCEPT !.processes = procs, !.lint_config = LoopLintConfig] :
        ctx \in ProcessContexts, procs \in SeqsUpTo(ProcessChoices, MaxProcs)}

\* Process records with a reset: has_reset or not, reset rst, a clock clk_a or
\* clk_b or none, in a.vhd or b.vhd, at line 1 or 2.
ResetProcessChoices ==
    {[label |-> "p1", is_combinational |-> FALSE, is_sequential |-> TRUE,
      assigned_signals |-> <<>>,
      read_signals |-> <<>>, file |-> f, line |-> ln, in_arch |-> s_rtl,
      has_reset |-> hr, reset_signal |-> <<"r", "s", "t">>, clock_signal |-> clk] :
        f \in {s_a_vhd, s_b_vhd}, ln \in {1, 2}, hr \in BOOLEAN,
        clk \in {<<>>, <<"c", "l", "k", "_", "a">>, <<"c", "l", "k", "_", "b">>}}

ResetInputs ==
    {[DefaultInput EXCEPT !.processes = procs,
                          !.lint_config = [rules |-> [r \in {"reset_crosses_domains"}
                                                         |-> "error"]]] :
        procs \in SeqsUpTo(ResetProcessChoices, MaxProcs)}

s_opb == <<"o", "p", "b">>

\* The actuals an instance may bind to the port p of child: the signal opb
\* whole, sliced downto and to, indexed, with two indices, with a bound that is
\* no number, and open.
InstanceActuals ==
    { s_opb,
      s_opb \o <<"(", "4", " ", "d", "o", "w", "n", "t", "o", " ", "0", ")">>,
      s_opb \o <<"(", "0", " ", "t", "o", " ", "4", ")">>,
      s_opb \o <<"(", "3", " ", "D", "O", "W", "N", "T", "O", " ", "3", ")">>,
      s_opb \o <<"(", "3", ")">>,
      s_opb \o <<"(", "1", ",", "2", ")">>,
      s_opb \o <<"(", "n", " ", "d", "o", "w", "n", "t", "o", " ", "0", ")">>,
      <<"o", "p", "e", "n">> }

\* Declarations of opb: of unknown width, 5 or 32 bits wide, in the
\* architecture rtl or in another one.
InstanceSignals ==
    {[name |-> s_opb, type |-> s_std_logic, file |-> s_a_vhd, line |-> 1,
      in_entity |-> scope, width |-> w] :
        scope \in {s_rtl, <<"o", "t", "h", "e", "r">>}, w \in {0, 5, 32}}

\* An entity child with one port p, an architecture rtl of core, and in it or
\* in no known architecture an instance u1 of work.child that binds p by name.
InstanceInputs ==
    {[DefaultInput EXCEPT
        !.entities = <<[name |-> <<"c", "h", "i", "l", "d">>, file |-> s_b_vhd, line |-> 1,
                        ports |-> <<[name |-> <<"p">>, direction |-> <<"i", "n">>,
                                     type |-> s_std_logic, default |-> <<>>, line |-> 2,
                                     in_entity |-> <<"c", "h", "i", "l", "d">>,
                                     width |-> pw]>>]>>,
        !.architectures = <<[name |-> s_rtl, entity_name |-> s_core,
                             file |-> s_a_vhd, line |-> 1]>>,
        !.signals = sigs,
        !.instances = <<[name |-> <<"u", "1">>,
                         target |-> <<"w", "o", "r", "k", ".", "c", "h", "i", "l", "d">>,
                         port_map |-> << >>, generic_map |-> << >>,
                         associations |-> <<[kind |-> "port", formal |-> <<"P">>,
                                             actual |-> actual, is_positional |-> FALSE,
                                             actual_kind |-> "name", actual_base |-> s_opb,
                                             actual_full |-> actual, line |-> 3,
                                             position_index |-> 0]>>,
                         file |-> s_a_vhd, line |-> 3, in_arch |-> arch]>>,
        !.lint_config = [rules |-> [r \in {"port_width_mismatch"} |-> "error"]]] :
        pw \in {0, 1, 5, 32}, sigs \in SeqsUpTo(InstanceSignals, MaxSignals),
        actual \in InstanceActuals, arch \in {<<>>, s_rtl}}

s_state == <<"s", "t", "a", "t", "e">>
s_state_t == <<"s", "t", "a", "t", "e", "_", "t">>
s_IDLE == <<"I", "D", "L", "E">>
s_RUN == <<"R", "U", "N">>
s_p1 == <<"p", "1">>
s_arch_rtl == <<"a", "r", "c", "h", ":", "r", "t", "l">>
id_fsm_legal_state == required_checks_for_construct("fsm")[1]
id_fsm_reset_known == required_checks_for_construct("fsm")[2]
id_cover_fsm_transition_taken == required_checks_for_construct("fsm")[3]

\* The entries of a check registry: fsm.legal_state is for an architecture,
\* needs the binding state and a cover companion; fsm.reset_known needs a
\* bound; the cover check is for any scope and needs a bound.
FsmRegistry ==
    << [id |-> id_fsm_legal_state, scope_type |-> <<"a", "r", "c", "h">>,
        required_bindings |-> <<s_state>>, needs_cover |-> TRUE, severity |-> "error",
        requires_bound |-> FALSE],
       [id |-> id_fsm_reset_known, scope_type |-> <<"A", "r", "c", "h">>,
        required_bindings |-> <<>>, needs_cover |-> FALSE, severity |-> "",
        requires_bound |-> TRUE],
       [id |-> id_cover_fsm_transition_taken, scope_type |-> <<>>,
        required_bindings |-> <<>>, needs_cover |-> FALSE, severity |-> "info",
        requires_bound |-> TRUE] >>

\* A design with the enum type state_t, the signal state of that type and the
\* architecture rtl of core, under the registry above.
FsmContext ==
    [DefaultInput EXCEPT
        !.types = <<[name |-> s_state_t, kind |-> <<"e", "n", "u", "m">>, line |-> 1,
                     file |-> s_a_vhd, in_arch |-> s_rtl, enum_literals |-> <<s_IDLE, s_RUN>>]>>,
        !.signals = <<[name |-> s_state, type |-> s_state_t, file |-> s_a_vhd, line |-> 2,
                       in_entity |-> s_rtl, width |-> 0]>>,
        !.architectures = <<[name |-> s_rtl, entity_name |-> s_core, file |-> s_a_vhd,
                             line |-> 1]>>,
        !.check_registry = FsmRegistry]

\* Processes p1 of rtl that assign state: sequential or not, combinational or
\* not, reading state or not.
FsmProcessChoices ==
    {[label |-> s_p1, is_sequential |-> seq, is_combinational |-> comb,
      assigned_signals |-> <<s_state>>, read_signals |-> reads, file |-> s_a_vhd,
      line |-> 3, in_arch |-> s_rtl, has_reset |-> FALSE, reset_signal |-> <<>>,
      clock_signal |-> <<>>] :
        seq \in BOOLEAN, comb \in BOOLEAN, reads \in {<<>>, <<<<"S", "t", "a", "t", "e">>>>}}

\* Case statements on state in p1: listing IDLE or both literals, with or
\* without others.
FsmCaseChoices ==
    {[expression |-> s_state, choices |-> ch, has_others |-> others, file |-> s_a_vhd,
      line |-> 4, in_process |-> s_p1, in_arch |-> s_rtl, is_complete |-> FALSE] :
        ch \in {<<s_IDLE>>, <<s_IDLE, s_RUN>>}, others \in BOOLEAN}

\* The design with one process and one case statement, with or without a
\* verification block in rtl, no tag, the registry above or an empty one, and
\* enum_case_incomplete listed in the configuration or not.
FsmInputs ==
    {[FsmContext EXCEPT
        !.processes = <<proc>>, !.case_statements = <<cs>>,
        !.verification_blocks = blocks, !.check_registry = registry,
        !.lint_config = [rules |-> cfg]] :
        proc \in FsmProcessChoices, cs \in FsmCaseChoices,
        blocks \in {<<>>, <<[label |-> <<"v">>, line_start |-> 6, line_end |-> 7,
                             file |-> s_a_vhd, in_arch |-> s_rtl]>>},
        registry \in {<<>>, FsmRegistry},
        cfg \in {<< >>, [r \in {"enum_case_incomplete"} |-> "error"]}}

\* Tags of rtl: a required check, the cover check or an id the registry does
\* not have; for the architecture or for the entity; without bindings, with
\* state and bound, or with a blank state.
TagChoices ==
    {[id |-> id, scope |-> scope, bindings |-> bindings, file |-> s_a_vhd, line |-> 5,
      raw |-> <<>>, in_arch |-> s_rtl] :
        id \in {id_fsm_legal_state, id_fsm_reset_known, id_cover_fsm_transition_taken,
                <<"f", "s", "m", ".", "b", "o", "g", "u", "s">>},
        scope \in {s_arch_rtl, <<"e", "n", "t", "i", "t", "y", ":", "c", "o", "r", "e">>},
        bindings \in {<< >>,
                      (s_state :> s_state) @@ (<<"b", "o", "u", "n", "d">> :> <<"1">>),
                      (s_state :> <<" ">>)}}

\* The design with a sequential process that assigns and reads state, a case
\* statement that lists IDLE, no verification block, and up to MaxTags tags.
TagInputs ==
    {[FsmContext EXCEPT
        !.processes = <<[label |-> s_p1, is_sequential |-> TRUE, is_combinational |-> FALSE,
                         assigned_signals |-> <<s_state>>, read_signals |-> <<s_state>>,
                         file |-> s_a_vhd, line |-> 3, in_arch |-> s_rtl,
                         has_reset |-> FALSE, reset_signal |-> <<>>,
                         clock_signal |-> <<>>]>>,
        !.case_statements = <<[expression |-> s_state, choices |-> <<s_IDLE>>,
                               has_others |-> FALSE, file |-> s_a_vhd, line |-> 4,
                               in_process |-> s_p1, in_arch |-> s_rtl,
                               is_complete |-> FALSE]>>,
        !.verification_tags = tags] :
        tags \in SeqsUpTo(TagChoices, MaxTags)}

\* Ports v and r: in, out, buffer or inout, of one bit or a vector.
HandshakePortChoices(name) ==
    {[name |-> name, direction |-> dir, type |-> type, default |-> <<>>, line |-> 1,
      in_entity |-> s_core, width |-> 0] :
        dir \in {<<"i", "n">>, <<"O", "u", "t">>, <<"b", "u", "f", "f", "e", "r">>,
                 <<"i", "n", "o", "u", "t">>},
        type \in {s_std_logic, <<"s", "t", "d", "_", "l", "o", "g", "i", "c", "_", "v",
                                 "e", "c", "t", "o", "r">>}}

\* A concurrent assignment of rtl that reads v and r, r alone or v, r and r;
\* each of the two names is a port or is not declared.
HandshakeInputs ==
    {[DefaultInput EXCEPT
        !.architectures = <<[name |-> s_rtl, entity_name |-> s_core, file |-> s_a_vhd,
                             line |-> 1]>>,
        !.ports = pv \o pr,
        !.concurrent_assignments =
            <<[target |-> <<"y">>, read_signals |-> reads, file |-> s_a_vhd, line |-> 2,
               in_arch |-> <<"R", "T", "L">>, kind |-> <<>>]>>] :
        pv \in {<<>>} \cup {<<p>> : p \in HandshakePortChoices(<<"v">>)},
        pr \in {<<>>} \cup {<<p>> : p \in HandshakePortChoices(<<"r">>)},
        reads \in {<< <<"V">>, <<"r">> >>, << <<"r">> >>, << <<"v">>, <<"r">>, <<"r">> >>}}

\* The Inputs vhdl_policy may be given.
BatchInputs ==
    FilterInputs \cup LoopInputs \cup CycleInputs \cup ProcessInputs \cup ResetInputs
        \cup InstanceInputs \cup FsmInputs \cup TagInputs \cup HandshakeInputs

service_vars ==
    <<reader, lines_read, channel, worker, epoch, time, sessions, violations_state,
      stdout, response, answered, blank_read, trail>>

\* read_input_file / read_input_stdin: the Input is deserialized.
BatchRead ==
    /\ batch_input = NoInput
    /\ batch_input' \in BatchInputs
    /\ UNCHANGED batch_result
    /\ UNCHANGED service_vars

\* let result = engine::evaluate(&input)
BatchEvaluate ==
    /\ batch_input # NoInput
    /\ batch_result = NoResult
    /\ \E res \in evaluate(batch_input) : batch_result' = res
    /\ UNCHANGED batch_input
    /\ UNCHANGED service_vars

BatchNext ==
    \/ BatchRead
    \/ BatchEvaluate

BatchSpec == Init /\ [][BatchNext]_vars

\* ================================================================ claims
\* How often each value occurs in a sequence.
BagOfSeq(seq) ==
    [x \in {seq[i] : i \in 1..Len(seq)} |-> Cardinality({i \in 1..Len(seq) : seq[i] = x})]

\* The sessions hold a set of facts: every row that is present is present once.
IsFactSet(sess) ==
    /\ \A d \in DOMAIN sess.entities : sess.entities[d] = 1
    /\ \A d \in DOMAIN sess.architectures : sess.architectures[d] = 1
    /\ \A d \in DOMAIN sess.ports : sess.ports[d] = 1
    /\ \A d \in DOMAIN sess.dependencies : sess.dependencies[d] = 1
    /\ \A d \in DOMAIN sess.symbols : sess.symbols[d] = 1

\* The lint configurations of the batch runs compared with the service: none,
\* and one that lists the four optional rules without changing a severity.
LintConfigs ==
    { << >>,
      [r \in {"entity_has_ports", "architecture_has_entity", "entity_without_arch",
              "unresolved_dependency"} |-> "on"] }

\* C1: after init(B) then delta(A, R), with B + A - R a set of facts, the
\* response holds the same multiset of violations as the batch engine's
\* evaluate on B + A - R (under the lint configuration most favourable to the
\* claim).
C1_IncrementalEqualsBatch ==
    (answered = <<"init", "delta">> /\ IsFactSet(sessions)) =>
        \E rules \in LintConfigs :
            \E res \in evaluate(FactInput(sessions, rules)) :
                BagOfSeq(response.violations) = BagOfSeq(res.violations)

\* The violations a Response lists.
ViolationSet(resp) == {resp.violations[i] : i \in 1..Len(resp.violations)}

\* The worker takes a line off the channel in this step.
Receives == Len(channel') = Len(channel) - 1

\* The worker answers a command of the given kind with a Response in this step.
Answers(kind) == answered' = Append(answered, kind)

AnswersAny == Len(answered') = Len(answered) + 1

CoreTables ==
    [entities |-> <<[name |-> s_core, file |-> s_a_vhd, line |-> 1]>>,
     architectures |-> <<>>, ports |-> <<>>, dependencies |-> <<>>, symbols |-> <<>>]

CoreTbTables ==
    [entities |-> <<[name |-> s_core_tb, file |-> s_a_vhd, line |-> 1]>>,
     architectures |-> <<>>, ports |-> <<>>, dependencies |-> <<>>, symbols |-> <<>>]

\* C2: the response to an init command lists exactly the violations derived
\* from the tables of that command alone; rows of an earlier init that the
\* command does not carry contribute nothing.
C2_InitReplacesBase ==
    [][Answers("init") =>
          ViolationSet(response')
              = Present(AllViolations(apply_tables(Head(channel).line.tables, 1)))]_vars

\* C3: a first init with the single entity core (no ports) is answered with
\* exactly one violation, and the delta that then removes core and adds
\* core_tb is answered with none.
C3_RetractionScenario ==
    [][/\ (/\ answered = <<>>
           /\ Answers("init")
           /\ Head(channel).line.tables = CoreTables)
          => Len(response'.violations) = 1
       /\ (/\ answered = <<"init">>
           /\ sessions = apply_tables(CoreTables, 1)
           /\ Answers("delta")
           /\ Head(channel).line.added = CoreTbTables
           /\ Head(channel).line.removed = CoreTables)
          => Len(response'.violations) = 0]_vars

\* C4: a snapshot command leaves every input relation and every violation
\* weight as it was, and its response has the violation set and the summary
\* of the response written before it.
C4_SnapshotChangesNothing ==
    [][Answers("snapshot") =>
          /\ sessions' = sessions
          /\ violations_state' = violations_state
          /\ response.kind = "snapshot" =>
                /\ ViolationSet(response') = ViolationSet(response)
                /\ response'.summary = response.summary]_vars

\* A snapshot carrying tables has been answered after an init whose response
\* lists violations.
C4_Witness ==
    /\ answered = <<"init", "snapshot">>
    /\ Len(response.violations) > 0
    /\ sessions = apply_tables(CoreTables, 1)

\* The line is no JSON text at all, or a JSON object whose kind is none of
\* init, delta, snapshot.
NotACommand(line) ==
    \/ line.form = "text"
    \/ line.form = "object" /\ line.has_kind
          /\ line.kind \notin {"init", "delta", "snapshot"}

\* What C5 promises of the step that receives the head of the channel.
OneErrorNothingElse ==
    /\ Len(stdout') = Len(stdout) + 1
    /\ stdout'[Len(stdout')].kind = "error"
    /\ stdout'[Len(stdout')].answers = Head(channel).id
    /\ sessions' = sessions
    /\ violations_state' = violations_state
    /\ response' = response
    /\ worker' = "loop"

\* C5 as stated: every received line that is not valid JSON, or whose kind is
\* unknown, gets exactly one error object, changes no relation and no weight,
\* and leaves the worker running.
C5_ErrorObjectForEveryBadLine ==
    [][(Receives /\ NotACommand(Head(channel).line)) => OneErrorNothingElse]_vars

\* C5, amended: the same for every such line that is not blank.
C5_ErrorObjectForNonBlankBadLine ==
    [][(/\ Receives
        /\ NotACommand(Head(channel).line)
        /\ ~OnlyWhitespace(Head(channel).line)) => OneErrorNothingElse]_vars

\* An error object answers a command of unknown kind that carried tables, after
\* a command had been answered, and the relations still hold what they held.
C5_Witness ==
    /\ Len(stdout) = 2
    /\ stdout[1].kind = "snapshot"
    /\ stdout[2].kind = "error"
    /\ stdout[2].message = "unknown command kind"
    /\ sessions = apply_tables(CoreTables, 1)

\* C6 as stated: the epoch advances with every non-blank line the worker
\* receives, error or not.
C6_EpochAdvancesOnEveryCommand ==
    [][(Receives /\ ~OnlyWhitespace(Head(channel).line)) => epoch' > epoch]_vars

\* C6, amended: the epoch never decreases, grows by one with every command
\* answered with a Response, and stays as it is in every other step.
C6_EpochAdvancesOnAnsweredCommand ==
    [][/\ epoch' >= epoch
       /\ AnswersAny => epoch' = epoch + 1
       /\ ~AnswersAny => epoch' = epoch]_vars

\* An error object and two Responses have been written: the epoch stands at 3.
C6_Witness ==
    /\ Len(stdout) = 3
    /\ Len(answered) = 2
    /\ epoch = 3

\* C7: a Response lists exactly the violations whose weight in the map is
\* positive, each once, and the map holds the weights the dataflow derives
\* from everything the sessions have been given.
C7_ResponseIsPositiveWeights ==
    response.kind = "snapshot" =>
        /\ violations_state = AllViolations(sessions)
        /\ ViolationSet(response) = {key \in DOMAIN violations_state :
                                        violations_state[key] > 0}
        /\ Len(response.violations) = Cardinality(ViolationSet(response))

\* A Response was written while the map held a negative and a positive weight.
C7_Witness ==
    /\ response.kind = "snapshot"
    /\ \E key \in DOMAIN violations_state : violations_state[key] < 0
    /\ \E key \in DOMAIN violations_state : violations_state[key] > 0
    /\ Len(response.violations) > 0

\* The rule ids in byte order.
RuleOrder ==
    <<"architecture_has_entity", "entity_has_ports", "entity_without_arch",
      "unresolved_dependency">>

RuleRank(rule) == CHOOSE i \in 1..Len(RuleOrder) : RuleOrder[i] = rule

\* Messages of one rule differ in the names they quote.
MessageLess(m, n) ==
    \E i \in 1..Len(m) :
        /\ \A j \in 1..(i - 1) : m[j] = n[j]
        /\ m[i] # n[i]
        /\ StrLess(m[i], n[i])

\* The order C8 describes: (file, line), then the remaining fields.
ViolationLess(a, b) ==
    \/ StrLess(a.file, b.file)
    \/ /\ a.file = b.file
       /\ \/ a.line < b.line
          \/ /\ a.line = b.line
             /\ \/ RuleRank(a.rule) < RuleRank(b.rule)
                \/ a.rule = b.rule /\ MessageLess(a.message, b.message)

\* C8: the violations of a Response are in ascending order of (file, line)
\* and, where those are equal, of the remaining fields.
C8_ResponseTotallyOrdered ==
    \A i, j \in 1..Len(response.violations) :
        i < j => ViolationLess(response.violations[i], response.violations[j])

\* The ids of the non-blank lines read so far, in the order read.
NonBlankIds == SelectSeq([i \in 1..Len(blank_read) |-> i], LAMBDA i : ~blank_read[i])

\* C9: the channel holds the lines read and not yet received, oldest first;
\* the k-th object on stdout answers the k-th non-blank line read; and the
\* relations change only in a step that also writes the command's response.
C9_ArrivalOrder ==
    [][/\ \A i \in 1..Len(channel') :
              channel'[i].id = lines_read' - Len(channel') + i
       /\ Len(stdout') <= Len(NonBlankIds')
       /\ \A k \in 1..Len(stdout') : stdout'[k].answers = NonBlankIds'[k]
       /\ sessions' # sessions => Len(stdout') = Len(stdout) + 1]_vars

\* Two objects have been written while two more lines wait in the channel.
C9_Witness ==
    /\ Len(stdout) = 2
    /\ Len(channel) = 2

\* C10: once the reader has exited, the worker receives every line still in
\* the channel, answers each non-blank one, and then exits; it never exits
\* with a line left in the channel.
C10_DrainsThenExits ==
    /\ [](worker = "exited" => (channel = <<>> /\ Len(stdout) = Len(NonBlankIds)))
    /\ (reader = "exited") ~>
          (worker = "exited" /\ channel = <<>> /\ Len(stdout) = Len(NonBlankIds))

\* The reader has exited with three lines still in the channel.
C10_Witness ==
    /\ reader = "exited"
    /\ worker = "loop"
    /\ Len(channel) = 3

\* ------------------------------------------------ claims on the batch engine
\* engine::evaluate has returned.
Evaluated == batch_result # NoResult

\* The findings of the Result, as a set.
ResultViolations == {batch_result.violations[i] : i \in 1..Len(batch_result.violations)}

\* lint_config.rules of the Input read.
ConfiguredRules == batch_input.lint_config.rules

\* The findings of the modelled rules before filter_violations.
RawViolations ==
    UNION {{raw[i] : i \in 1..Len(raw)} :
             raw \in {core_violations(batch_input) \o analyze(batch_input).violations
                         \o comb \o hierarchy_violations(batch_input)
                         \o latch_violations(batch_input)
                         \o rdc_violations(batch_input) :
                         comb \in combinational_violations(batch_input)}}

\* C11: no finding of the Result lies in a file that third_party_files lists.
C11_ThirdPartySuppressed ==
    Evaluated =>
        \A i \in 1..Len(batch_input.third_party_files) :
            \A v \in ResultViolations : v.file # batch_input.third_party_files[i]

\* a.vhd is listed as third-party, an enabled rule has a finding in a.vhd, and
\* the Result still holds findings from elsewhere.
C11_Witness ==
    /\ Evaluated
    /\ batch_input.third_party_files = <<s_a_vhd>>
    /\ \E v \in RawViolations :
          v.file = s_a_vhd /\ ~rule_is_disabled(batch_input, v.rule)
    /\ ResultViolations # {}

\* C12: a finding whose rule the configuration maps to error, warning or info
\* has that severity in the Result, and the summary counts the findings by
\* the severity they have in the Result.
C12_SeverityOverride ==
    Evaluated =>
        /\ \A v \in ResultViolations :
              (/\ v.rule \in DOMAIN ConfiguredRules
               /\ ConfiguredRules[v.rule] \in {"error", "warning", "info"})
                 => v.severity = ConfiguredRules[v.rule]
        /\ \A sev \in {"error", "warning", "info"} :
              Cardinality({i \in 1..Len(batch_result.violations) :
                             batch_result.violations[i].severity = sev})
                 = (CASE sev = "error" -> batch_result.summary.errors
                      [] sev = "warning" -> batch_result.summary.warnings
                      [] sev = "info" -> batch_result.summary.info)
        /\ batch_result.summary.total_violations = Len(batch_result.violations)

\* entity_has_ports, a warning by default, is configured as info and reported
\* as info; the summary counts it there.
C12_Witness ==
    /\ Evaluated
    /\ "entity_has_ports" \in DOMAIN ConfiguredRules
    /\ ConfiguredRules["entity_has_ports"] = "info"
    /\ \E v \in ResultViolations : v.rule = "entity_has_ports" /\ v.severity = "info"
    /\ batch_result.summary.info > 0

\* C13: no finding of the Result has a rule that the configuration maps to off.
C13_DisabledRule ==
    Evaluated =>
        \A v \in ResultViolations :
            v.rule \in DOMAIN ConfiguredRules => ConfiguredRules[v.rule] # "off"

\* duplicate_entity_in_library, which is not optional, is mapped to off and
\* the Input triggers it.
C13_Witness ==
    /\ Evaluated
    /\ "duplicate_entity_in_library" \in DOMAIN ConfiguredRules
    /\ ConfiguredRules["duplicate_entity_in_library"] = "off"
    /\ duplicate_entity_in_library(batch_input) # <<>>

\* C14: a finding of an optional rule is in the Result only if the
\* configuration has an entry for the rule, and that entry is not off.
C14_OptionalRuleGating ==
    Evaluated =>
        \A v \in ResultViolations :
            v.rule \in OptionalRules =>
                /\ v.rule \in DOMAIN ConfiguredRules
                /\ ConfiguredRules[v.rule] # "off"

\* With an empty configuration the Input triggers entity_has_ports, which is
\* optional, and duplicate_entity_in_library, which is not and is reported.
C14_Witness ==
    /\ Evaluated
    /\ DOMAIN ConfiguredRules = {}
    /\ missing_ports(batch_input) # <<>>
    /\ \E v \in ResultViolations : v.rule = "duplicate_entity_in_library"

\* The Input with every configuration entry removed whose value is none of
\* off, error, warning, info.
WithoutInvalidEntries(input) ==
    [input EXCEPT !.lint_config.rules =
        [r \in {q \in DOMAIN input.lint_config.rules :
                   input.lint_config.rules[q] \in {"off", "error", "warning", "info"}}
            |-> input.lint_config.rules[r]]]

\* C15: entries whose value is no severity (and not off) change nothing: the
\* Result is one that evaluate returns for the Input without those entries.
C15_InvalidSeverityIsDefault ==
    Evaluated =>
        \E res \in evaluate(WithoutInvalidEntries(batch_input)) :
            res.violations = batch_result.violations

\* C16: every evaluation of the Input read returns the violation sequence of
\* the evaluation that was made, whatever order the hash maps iterate in.
C16_EvaluateDeterministic ==
    Evaluated =>
        \A res \in evaluate(batch_input) : res.violations = batch_result.violations

\* The Input with every name up-cased: the names of entities, architectures
\* and signals, the ends of the signal dependencies and the signals a process
\* assigns and reads. File paths, lines, types and labels stay; the other
\* collections are empty in the Inputs read.
UpCase(input) ==
    [input EXCEPT
        !.entities = [i \in 1..Len(@) |->
            [@[i] EXCEPT !.name = to_ascii_uppercase(@)]],
        !.architectures = [i \in 1..Len(@) |->
            [@[i] EXCEPT !.name = to_ascii_uppercase(@),
                         !.entity_name = to_ascii_uppercase(@)]],
        !.signals = [i \in 1..Len(@) |->
            [@[i] EXCEPT !.name = to_ascii_uppercase(@)]],
        !.signal_deps = [i \in 1..Len(@) |->
            [@[i] EXCEPT !.source = to_ascii_uppercase(@),
                         !.target = to_ascii_uppercase(@)]],
        !.processes = [i \in 1..Len(@) |->
            [@[i] EXCEPT !.in_arch = to_ascii_uppercase(@),
                         !.assigned_signals =
                             [k \in 1..Len(@) |-> to_ascii_uppercase(@[k])],
                         !.read_signals =
                             [k \in 1..Len(@) |-> to_ascii_uppercase(@[k])]]]]

\* Rule, severity, file and line of the findings of a list.
Located(list) ==
    {<<list[i].rule, list[i].severity, list[i].file, list[i].line>> :
        i \in 1..Len(list)}

\* C17: evaluating the up-cased Input gives the findings of the Input itself,
\* by rule, severity, file and line.
C17_CaseInsensitive ==
    Evaluated =>
        \A res \in evaluate(UpCase(batch_input)) :
            Located(res.violations) = Located(batch_result.violations)

\* The entity_has_ports findings of the Result, by position.
PortFindings ==
    {i \in 1..Len(batch_result.violations) :
        batch_result.violations[i].rule = "entity_has_ports"}

\* C18: with an empty lint configuration and a single entity without ports,
\* the Result has exactly one entity_has_ports finding, a warning at the
\* entity's file and line, when the entity's name has no testbench token, and
\* none when it has one.
C18_MissingPorts ==
    (/\ Evaluated
     /\ DOMAIN ConfiguredRules = {}
     /\ Len(batch_input.entities) = 1
     /\ batch_input.entities[1].ports = <<>>)
        => IF helpers_is_testbench_name(batch_input.entities[1].name)
           THEN PortFindings = {}
           ELSE /\ Cardinality(PortFindings) = 1
                /\ \A i \in PortFindings :
                      /\ batch_result.violations[i].severity = "warning"
                      /\ batch_result.violations[i].file = batch_input.entities[1].file
                      /\ batch_result.violations[i].line = batch_input.entities[1].line

\* The Input has been read.
InputRead == batch_input # NoInput

\* The signal_deps of the Input read.
Deps == batch_input.signal_deps

\* Some sequential dependency of the list writes the name.
SequentiallyWritten(name) ==
    \E j \in 1..Len(Deps) : Deps[j].is_sequential /\ Deps[j].target = name

\* The dependencies the claim says are reported: non-sequential, from a signal
\* to itself, the signal not written sequentially, not of resolved type, the
\* file without a testbench entity.
SelfEdges ==
    {j \in 1..Len(Deps) :
        /\ ~Deps[j].is_sequential
        /\ Deps[j].source = Deps[j].target
        /\ ~SequentiallyWritten(Deps[j].target)
        /\ ~is_resolved_signal(batch_input, Deps[j].target)
        /\ ~file_in_testbench(batch_input, Deps[j].file)}

\* direct_combinational_loop emits one finding for each of these dependencies
\* and no other.
DirectLoopCharacterized ==
    LET found == direct_combinational_loop(batch_input) IN
    /\ Len(found) = Cardinality(SelfEdges)
    /\ \A k \in 1..Len(found) :
          /\ found[k].rule = "direct_combinational_loop"
          /\ \E j \in SelfEdges :
                found[k].file = Deps[j].file /\ found[k].line = Deps[j].line

\* The Input with the non-sequential edge name -> name added, in a.vhd.
WithSelfEdge(input, name) ==
    [input EXCEPT !.signal_deps =
        Append(@, [source |-> name, target |-> name, is_sequential |-> FALSE,
                   file |-> s_a_vhd, line |-> 3])]

\* Adding the edge name -> name adds exactly one finding.
AddsOneFinding(name) ==
    Len(direct_combinational_loop(WithSelfEdge(batch_input, name)))
        = Len(direct_combinational_loop(batch_input)) + 1

CombinationalEdge(x, y) ==
    \E j \in 1..Len(Deps) :
        /\ ~Deps[j].is_sequential
        /\ ~is_resolved_signal(batch_input, Deps[j].source)
        /\ ~is_resolved_signal(batch_input, Deps[j].target)
        /\ to_ascii_lowercase(Deps[j].source) = x
        /\ to_ascii_lowercase(Deps[j].target) = y

\* The lower-cased names the dependencies mention.
DepNames ==
    {to_ascii_lowercase(Deps[j].source) : j \in 1..Len(Deps)}
        \cup {to_ascii_lowercase(Deps[j].target) : j \in 1..Len(Deps)}

\* The unordered pairs of distinct names with a combinational edge each way.
LoopPairs ==
    {pair \in SUBSET DepNames :
        \E x \in pair : \E y \in pair :
            /\ x # y
            /\ pair = {x, y}
            /\ CombinationalEdge(x, y)
            /\ CombinationalEdge(y, x)}

\* C20: two_stage_loop emits as many findings as there are such pairs, each a
\* two_stage_combinational_loop finding; the number does not depend on the
\* order of the dependencies nor on how often one is listed.
C20_OnePerUnorderedPair ==
    InputRead =>
        LET found == two_stage_loop(batch_input) IN
        /\ Len(found) = Cardinality(LoopPairs)
        /\ \A k \in 1..Len(found) : found[k].rule = "two_stage_combinational_loop"

\* a -> b is listed twice and b -> A once: one pair, spelled in two cases, and
\* the Result reports it once.
C20_Witness ==
    /\ Evaluated
    /\ Len(Deps) = 3
    /\ \E i \in 1..3 : \E j \in 1..3 :
          /\ i # j
          /\ Deps[i] = Deps[j]
          /\ Deps[i].source = n_a /\ Deps[i].target = n_b /\ ~Deps[i].is_sequential
    /\ \E j \in 1..3 :
          Deps[j].source = n_b /\ Deps[j].target = n_A /\ ~Deps[j].is_sequential
    /\ Cardinality({i \in 1..Len(batch_result.violations) :
                      batch_result.violations[i].rule = "two_stage_combinational_loop"}) = 1

\* The processes of the Input read.
Procs == batch_input.processes

\* Process i assigns a and reads b, process j assigns b and reads a; both are
\* combinational and outside a testbench, their labels differ and so do a, b.
MutualPair(i, j, a, b) ==
    /\ i # j
    /\ a # b
    /\ Procs[i].is_combinational /\ Procs[j].is_combinational
    /\ ~process_in_testbench(batch_input, Procs[i])
    /\ ~process_in_testbench(batch_input, Procs[j])
    /\ Procs[i].label # Procs[j].label
    /\ \E k \in 1..Len(Procs[i].assigned_signals) : Procs[i].assigned_signals[k] = a
    /\ \E k \in 1..Len(Procs[i].read_signals) : Procs[i].read_signals[k] = b
    /\ \E k \in 1..Len(Procs[j].assigned_signals) : Procs[j].assigned_signals[k] = b
    /\ \E k \in 1..Len(Procs[j].read_signals) : Procs[j].read_signals[k] = a

\* The findings of a list that name the two labels and the two signals.
CrossFindings(list, l1, l2, a, b) ==
    {k \in 1..Len(list) :
        /\ list[k].rule = "cross_process_combinational_loop"
        /\ {list[k].message[2], list[k].message[4]} = {l1, l2}
        /\ {list[k].message[6], list[k].message[8]} = {a, b}}

\* C23: for every two such processes and signals, cross_process_loop emits
\* exactly one finding about them, whichever process has the smaller line and
\* whichever signal sorts first.
C23_OneFindingPerMutualPair ==
    InputRead =>
        \A i \in 1..Len(Procs) : \A j \in 1..Len(Procs) :
            \A a \in {n_a, n_b, n_c} : \A b \in {n_a, n_b, n_c} :
                MutualPair(i, j, a, b) =>
                    \A found \in cross_process_loop(batch_input) :
                        Cardinality(CrossFindings(found, Procs[i].label,
                                                  Procs[j].label, a, b)) = 1

\* The sets of three distinct names with a combinational edge from the first
\* to the second, the second to the third and the third to the first.
CycleSets ==
    {cyc \in SUBSET DepNames :
        \E x \in cyc : \E y \in cyc : \E z \in cyc :
            /\ x # y /\ y # z /\ x # z
            /\ cyc = {x, y, z}
            /\ CombinationalEdge(x, y)
            /\ CombinationalEdge(y, z)
            /\ CombinationalEdge(z, x)}

\* C24: three_stage_loop emits as many findings as there are such sets, each
\* a three_stage_combinational_loop finding, whatever the order of the
\* dependencies and however often an edge is listed.
C24_OnePerCycle ==
    InputRead =>
        LET found == three_stage_loop(batch_input) IN
        /\ Len(found) = Cardinality(CycleSets)
        /\ \A k \in 1..Len(found) : found[k].rule = "three_stage_combinational_loop"

\* The cycle a -> b -> c -> a is listed starting from its last edge, that
\* edge twice in two spellings, and the Result reports it once.
C24_Witness ==
    /\ Evaluated
    /\ Len(Deps) = 4
    /\ Deps[1].source = n_C /\ Deps[1].target = n_a
    /\ \E j \in 2..4 : Deps[j].source = n_c /\ Deps[j].target = n_a
                          /\ ~Deps[j].is_sequential
    /\ Cardinality(CycleSets) = 1
    /\ Cardinality({i \in 1..Len(batch_result.violations) :
                      batch_result.violations[i].rule = "three_stage_combinational_loop"}) = 1

\* The unordered pairs of processes that both have a reset, share a non-empty
\* reset signal and have different non-empty clock signals.
ResetPairs ==
    {pq \in (1..Len(Procs)) \X (1..Len(Procs)) :
        /\ pq[1] < pq[2]
        /\ Procs[pq[1]].has_reset /\ Procs[pq[2]].has_reset
        /\ Procs[pq[1]].reset_signal # <<>>
        /\ Procs[pq[1]].reset_signal = Procs[pq[2]].reset_signal
        /\ Procs[pq[1]].clock_signal # <<>> /\ Procs[pq[2]].clock_signal # <<>>
        /\ Procs[pq[1]].clock_signal # Procs[pq[2]].clock_signal}

\* C26: reset_crosses_domains emits one error per such pair, whatever the
\* files and lines of the two processes, at a process of the pair that no
\* process of the pair precedes by line.
C26_OneErrorPerResetPair ==
    InputRead =>
        LET found == reset_crosses_domains(batch_input) IN
        /\ Len(found) = Cardinality(ResetPairs)
        /\ \A k \in 1..Len(found) :
              /\ found[k].rule = "reset_crosses_domains"
              /\ found[k].severity = "error"
              /\ \E pq \in ResetPairs : \E first \in {pq[1], pq[2]} :
                    /\ found[k].file = Procs[first].file
                    /\ found[k].line = Procs[first].line
                    /\ Procs[first].line <= Procs[pq[1]].line
                    /\ Procs[first].line <= Procs[pq[2]].line

\* C30: every unresolved_dependency violation of the response is that of a
\* dependency row of kind instantiation that the base holds with a positive
\* weight and whose target is no symbol the base holds with a positive weight.
C30_UnresolvedOnlyInstantiation ==
    \A i \in 1..Len(response.violations) :
        response.violations[i].rule = "unresolved_dependency" =>
            \E d \in DOMAIN sessions.dependencies :
                /\ sessions.dependencies[d] > 0
                /\ d[4] = k_instantiation
                /\ response.violations[i].file = d[2]
                /\ response.violations[i].line = d[3]
                /\ response.violations[i].message = <<"Unresolved dependency: '", d[1], "'">>
                /\ Weight(sessions.symbols, d[1]) <= 0

\* The violations of a Response, as a set.
ResponseSet(resp) == {resp.violations[i] : i \in 1..Len(resp.violations)}

\* The last delta handled added what the one before it removed, and removed
\* what that one added.
UndoneByInverse ==
    /\ Len(trail) = 2
    /\ trail[2].added = trail[1].removed
    /\ trail[2].removed = trail[1].added

\* The last delta handled carried the same tables as added and as removed.
AddedIsRemoved ==
    /\ trail # <<>>
    /\ trail[Len(trail)].added = trail[Len(trail)].removed

\* C29: after a delta and its inverse the base weights, the violation set and
\* the summary are those the first delta found; a delta whose added and
\* removed tables are the same leaves the violation set as it found it.
C29_InverseDeltaRestores ==
    /\ UndoneByInverse =>
          /\ sessions = trail[1].sessions
          /\ ResponseSet(response) = ResponseSet(trail[1].response)
          /\ response.summary = trail[1].response.summary
    /\ AddedIsRemoved =>
          /\ sessions = trail[Len(trail)].sessions
          /\ ResponseSet(response) = ResponseSet(trail[Len(trail)].response)

\* An init reported violations of core; a delta then added a port and removed
\* nothing else, which changed the response, and its inverse has been handled.
C29_Witness ==
    /\ UndoneByInverse
    /\ trail[1].added # trail[1].removed
    /\ trail[1].response.violations # <<>>
    /\ trail[2].sessions # trail[1].sessions
    /\ ResponseSet(trail[2].response) # ResponseSet(trail[1].response)

\* The instance of the Input read, the actual it binds to the port of child,
\* and the width of that port.
HasInstance == InputRead /\ batch_input.instances # <<>>

TheInstance == batch_input.instances[1]

TheActual == TheInstance.associations[1].actual

ThePortWidth == batch_input.entities[1].ports[1].width

\* The widths of the declarations of opb the lookup of the instance sees: those
\* of the architecture of the instance, or all when the instance names none.
SeenWidths ==
    {batch_input.signals[i].width :
        i \in {j \in 1..Len(batch_input.signals) :
                  \/ TheInstance.in_arch = <<>>
                  \/ batch_input.signals[j].in_entity = TheInstance.in_arch}}

BaseWidth == IF SeenWidths = {} THEN 0 ELSE CHOOSE w \in SeenWidths : \A v \in SeenWidths : v <= w

\* The width the claim gives the slices and the single index of the actuals.
SliceWidth ==
    (s_opb \o <<"(", "4", " ", "d", "o", "w", "n", "t", "o", " ", "0", ")">>) :> 5
    @@ (s_opb \o <<"(", "0", " ", "t", "o", " ", "4", ")">>) :> 5
    @@ (s_opb \o <<"(", "3", " ", "D", "O", "W", "N", "T", "O", " ", "3", ")">>) :> 1
    @@ (s_opb \o <<"(", "3", ")">>) :> (IF BaseWidth = 0 THEN 0 ELSE 1)

\* C22: a slice hi downto lo or lo to hi is |hi - lo| + 1 wide, a single index
\* on a base of known width is 1 wide and on a base of unknown width gives no
\* finding; port_width_mismatch reports an error exactly when the width so
\* derived and the width of the port are both not 0 and differ.
C22_SliceWidthDecides ==
    (HasInstance /\ TheActual \in DOMAIN SliceWidth) =>
        LET found == port_width_mismatch(batch_input)
            differs == /\ SliceWidth[TheActual] # 0
                       /\ ThePortWidth # 0
                       /\ SliceWidth[TheActual] # ThePortWidth
        IN /\ Len(found) = (IF differs THEN 1 ELSE 0)
           /\ \A k \in 1..Len(found) :
                 found[k].rule = "port_width_mismatch" /\ found[k].severity = "error"

\* A port of 5 bits is bound to opb(4 downto 0) of a signal of 32 bits and the
\* Result has no finding of the rule.
C22_Witness ==
    /\ Evaluated
    /\ HasInstance
    /\ ThePortWidth = 5
    /\ TheActual = s_opb \o <<"(", "4", " ", "d", "o", "w", "n", "t", "o", " ", "0", ")">>
    /\ BaseWidth = 32
    /\ \A v \in ResultViolations : v.rule # "port_width_mismatch"

\* C25: when the architecture of the instance declares no opb, the width of a
\* declaration of opb elsewhere in the store is used, so that a whole-signal
\* actual whose only declarations are elsewhere and differ in width from the
\* port is reported.
C25_GlobalFallback ==
    (/\ HasInstance
     /\ TheActual = s_opb
     /\ TheInstance.in_arch # <<>>
     /\ SeenWidths = {}
     /\ ThePortWidth # 0
     /\ \E i \in 1..Len(batch_input.signals) : batch_input.signals[i].width # 0
     /\ \A i \in 1..Len(batch_input.signals) :
           batch_input.signals[i].width \notin {0, ThePortWidth})
        => Len(port_width_mismatch(batch_input)) = 1

\* The concurrent assignment of the Input read, when it reads two signals, and
\* what the ports of the Input say about a name.
ReadsTwo ==
    /\ InputRead
    /\ Len(batch_input.concurrent_assignments) = 1
    /\ Len(batch_input.concurrent_assignments[1].read_signals) = 2

TheReads == batch_input.concurrent_assignments[1].read_signals

PortsNamed(name) ==
    {batch_input.ports[i] : i \in {j \in 1..Len(batch_input.ports) :
                                      to_ascii_uppercase(batch_input.ports[j].name) = to_ascii_uppercase(name)}}

SingleBit(name) ==
    \E p \in PortsNamed(name) : to_ascii_uppercase(p.type) \in {to_ascii_uppercase(s_std_logic)}

Direction(name) == {as_str(to_ascii_uppercase(p.direction)) : p \in PortsNamed(name)}

Detected == detect_ready_valid_constructs(batch_input)

Ambiguous ==
    /\ Detected.constructs = <<>>
    /\ Len(Detected.ambiguous) = 1
    /\ Detected.ambiguous[1].kind = "ready_valid"
    /\ \A role \in {<<"v", "a", "l", "i", "d">>, <<"r", "e", "a", "d", "y">>} :
          /\ role \in DOMAIN Detected.ambiguous[1].candidates
          /\ {Detected.ambiguous[1].candidates[role][i] :
                 i \in 1..Len(Detected.ambiguous[1].candidates[role])}
                = {TheReads[1], TheReads[2]}

\* C28: of a concurrent assignment that reads two signals, two one-bit ports
\* of which one is an input and the other an output give a ReadyValid
\* construct with valid the output and ready the input; two one-bit ports of
\* the same direction, and two names that are no ports, give an
\* AmbiguousConstruct of kind ready_valid that lists both names for valid and
\* for ready.
C28_ReadyValidOrAmbiguous ==
    ReadsTwo =>
        /\ \A o \in 1..2 :
              (/\ SingleBit(TheReads[1]) /\ SingleBit(TheReads[2])
               /\ Direction(TheReads[o]) = {"OUT"}
               /\ Direction(TheReads[3 - o]) = {"IN"})
                  => /\ Detected.ambiguous = <<>>
                     /\ Len(Detected.constructs) = 1
                     /\ Detected.constructs[1].kind = "ready_valid"
                     /\ Detected.constructs[1].bindings[<<"v", "a", "l", "i", "d">>]
                            = TheReads[o]
                     /\ Detected.constructs[1].bindings[<<"r", "e", "a", "d", "y">>]
                            = TheReads[3 - o]
        /\ (/\ SingleBit(TheReads[1]) /\ SingleBit(TheReads[2])
            /\ Direction(TheReads[1]) = Direction(TheReads[2]))
               => Ambiguous
        /\ (PortsNamed(TheReads[1]) = {} /\ PortsNamed(TheReads[2]) = {})
               => Ambiguous

\* The Input read is the state machine example: state_t with IDLE and RUN, the
\* signal state in rtl, a sequential process that assigns and reads state, a
\* case statement on state that lists IDLE alone, no tag and no verification
\* block.
FsmExample ==
    /\ InputRead
    /\ Len(batch_input.case_statements) = 1
    /\ batch_input.case_statements[1].choices = <<s_IDLE>>
    /\ ~batch_input.case_statements[1].has_others
    /\ Len(batch_input.processes) = 1
    /\ batch_input.processes[1].is_sequential
    /\ batch_input.processes[1].read_signals # <<>>
    /\ batch_input.verification_tags = <<>>
    /\ batch_input.verification_blocks = <<>>

\* The ids the missing_verification_check findings of the Result name.
MissingCheckIds ==
    {v.message[2] : v \in {w \in ResultViolations : w.rule = "missing_verification_check"}}

\* The planner's part of the example: three missing_verification_check
\* findings, one for each check of a state machine, one
\* missing_verification_block finding, and one MissingCheckTask of arch:rtl
\* with the three ids.
PlannerReportsFsm ==
    /\ Cardinality({i \in 1..Len(batch_result.violations) :
                       batch_result.violations[i].rule = "missing_verification_check"}) = 3
    /\ MissingCheckIds = {id_fsm_legal_state, id_fsm_reset_known,
                          id_cover_fsm_transition_taken}
    /\ \E v \in ResultViolations : v.rule = "missing_verification_block"
    /\ Len(batch_result.missing_checks) = 1
    /\ batch_result.missing_checks[1].scope = s_arch_rtl
    /\ batch_result.missing_checks[1].missing_ids
           = <<id_fsm_legal_state, id_fsm_reset_known, id_cover_fsm_transition_taken>>

\* C21: for the state machine example the Result has an enum_case_incomplete
\* error, three missing_verification_check findings (fsm.legal_state,
\* fsm.reset_known, cover.fsm.transition_taken), a missing_verification_block
\* finding and one MissingCheckTask of arch:rtl with those three ids.
C21_FsmExample ==
    (FsmExample /\ Evaluated) =>
        /\ \E v \in ResultViolations : v.rule = "enum_case_incomplete" /\ v.severity = "error"
        /\ PlannerReportsFsm

\* The tags of the Input read and the registry entries by lower-cased id.
Tags == batch_input.verification_tags

RegistryEntries(id) ==
    {batch_input.check_registry[i] :
        i \in {j \in 1..Len(batch_input.check_registry) :
                  to_ascii_uppercase(batch_input.check_registry[j].id)
                      = to_ascii_uppercase(id)}}

ScopePrefix(scope) ==
    SubSeq(scope, 1, (CHOOSE i \in 1..(Len(scope) + 1) :
                         /\ i = Len(scope) + 1 \/ scope[i] = ":"
                         /\ \A j \in 1..(i - 1) : scope[j] # ":") - 1)

Blank(tag, binding) ==
    binding \notin DOMAIN tag.bindings \/ trim_is_empty(tag.bindings[binding])

\* The tag fails validation: its id is not in the registry, or the prefix of
\* its scope is not the scope type of the entry, or a required binding is
\* missing or empty, or the entry requires a bound and the tag has none.
FailsValidation(tag) ==
    \/ RegistryEntries(tag.id) = {}
    \/ \E entry \in RegistryEntries(tag.id) :
          \/ /\ entry.scope_type # <<>>
             /\ to_ascii_uppercase(ScopePrefix(tag.scope))
                    # to_ascii_uppercase(entry.scope_type)
          \/ \E b \in 1..Len(entry.required_bindings) :
                Blank(tag, entry.required_bindings[b])
          \/ entry.requires_bound /\ Blank(tag, <<"b", "o", "u", "n", "d">>)

\* The Input read without its i-th tag.
WithoutTag(i) ==
    [batch_input EXCEPT !.verification_tags =
        SubSeq(Tags, 1, i - 1) \o SubSeq(Tags, i + 1, Len(Tags))]

\* The findings of the planner passes that look at the tags a design has.
PlannerFindings(violations) ==
    SelectSeq(violations,
              LAMBDA v : v.rule \in {"missing_verification_check",
                                     "missing_cover_companion"})

\* C27: a tag that fails validation counts for nothing in the later passes:
\* the missing_verification_check and missing_cover_companion findings and the
\* MissingCheckTasks of the Result are those of the Input without the tag.
C27_InvalidTagAsAbsent ==
    Evaluated =>
        \A i \in 1..Len(Tags) :
            FailsValidation(Tags[i]) =>
                \A res \in evaluate(WithoutTag(i)) :
                    /\ PlannerFindings(res.violations)
                           = PlannerFindings(batch_result.violations)
                    /\ res.missing_checks = batch_result.missing_checks

\* The one tag names fsm.legal_state for arch:rtl but lacks the binding state
\* the registry requires, and the Result still misses that check.
C27_Witness ==
    /\ Evaluated
    /\ Len(Tags) = 1
    /\ Tags[1].id = id_fsm_legal_state
    /\ Tags[1].scope = s_arch_rtl
    /\ DOMAIN Tags[1].bindings = {}
    /\ FailsValidation(Tags[1])
    /\ Len(batch_result.missing_checks) = 1
    /\ batch_result.missing_checks[1].missing_ids[1] = id_fsm_legal_state

====
